---- MODULE Spec2Model ----
(***************************************************************************)
(* Verification model of the tess OPC/DOCX inspection core:                *)
(*   - the Reference Map (core/reference-map.ts)                           *)
(*   - the relationship resolver (core/relationships.ts)                   *)
(*   - the container reader and package loader (core/jszip-lite.ts,        *)
(*     core/zip-loader.ts)                                                 *)
(* Strings are sequences of one-character strings, so that key             *)
(* construction, case folding, splitting and joining are computed the way  *)
(* the code computes them.                                                 *)
(***************************************************************************)
EXTENDS Integers, Sequences, FiniteSets, TLC

VARIABLES
    forwardMap,     \* Map<string, ReferenceTarget[]>  (reference-map.ts)
    reverseMap,     \* Map<string, ReferenceSource[]>  (reference-map.ts)
    ret,            \* the last call on the ReferenceMapHandle and what it returned
    added,          \* history: links passed to addReference since creation / last clear()
    cleared,        \* history: TRUE once clear() has dropped at least one link
    stale,          \* history: links registered while an earlier package was active
    loads,          \* history: number of package replacements so far
    relCall,        \* the pending call into core/relationships.ts and its arguments
    relResult,      \* whether that call has returned, and its return value
    archive,        \* the container handed to the running loadDocxPackage call
    ld,             \* that call's position and locals (jszip-lite.ts, zip-loader.ts)
    promise,        \* the promise loadDocxPackage returned to its caller
    activeModel,    \* the package model the application has active
    state,          \* the tab store's state: open tabs and the active path (tab-store.ts)
    listeners,      \* the tab store's subscribed listeners
    tabCall,        \* the last call on the TabStoreHandle and whom it notified
    heap,           \* the array objects the Reference Map has created, by identity
    buckets,        \* which array object each key of forwardMap / reverseMap holds
    handedOut       \* history: the arrays handed to callers, with their content then

refVars == <<forwardMap, reverseMap, ret, added, cleared, stale, loads>>

relVars == <<relCall, relResult>>

zipVars == <<archive, ld, promise, activeModel>>

tabVars == <<state, listeners, tabCall>>

heapVars == <<heap, buckets, handedOut>>

vars == <<forwardMap, reverseMap, ret, added, cleared, stale, loads, relCall, relResult,
          archive, ld, promise, activeModel, state, listeners, tabCall,
          heap, buckets, handedOut>>

(***************************************************************************)
(* Bounds                                                                  *)
(***************************************************************************)
MaxAdds == 2        \* addReference calls between two clear()s
MaxLoads == 2       \* package replacements
MaxPathLen == 4     \* characters in an owner path or a raw target
MaxSegs == 3        \* segments in a .rels path
MaxElems == 2       \* <Relationship> elements in a .rels part
MaxRecords == 2     \* records in a central directory
MaxTabs == 3        \* tabs open at once in the tab store

MaxArrays == 5      \* array objects the Reference Map creates

MaxSignatures == 2  \* occurrences of the End-Of-Central-Directory signature in a buffer

(***************************************************************************)
(* Strings                                                                 *)
(***************************************************************************)
Undefined == <<"undefined">>

Uppers == <<"A","B","C","D","E","F","G","H","I","J","K","L","M",
            "N","O","P","Q","R","S","T","U","V","W","X","Y","Z">>

Lowers == <<"a","b","c","d","e","f","g","h","i","j","k","l","m",
            "n","o","p","q","r","s","t","u","v","w","x","y","z">>

toLowerCaseChar(c) ==
    IF \E i \in 1..Len(Uppers) : Uppers[i] = c
    THEN Lowers[CHOOSE i \in 1..Len(Uppers) : Uppers[i] = c]
    ELSE c

toLowerCase(s) == [i \in 1..Len(s) |-> toLowerCaseChar(s[i])]

(***************************************************************************)
(* Reference Map                                                           *)
(***************************************************************************)
Separator == <<":", ":">>

createReferenceKeyExact(path, attribute, value) ==
    path \o Separator \o attribute \o Separator \o value

createReferenceKey(path, attribute, value) ==
    path \o Separator \o toLowerCase(attribute) \o Separator \o value

MapGet(map, key) == IF key \in DOMAIN map THEN map[key] ELSE <<>>

MapSet(map, key, value) ==
    [k \in (DOMAIN map) \cup {key} |-> IF k = key THEN value ELSE map[k]]

EmptyMap == <<>>

ReferenceTarget(link) ==
    [targetPath |-> link.targetPath,
     targetAttribute |-> link.targetAttribute,
     targetValue |-> link.targetValue]

ReferenceSource(link) ==
    [sourcePath |-> link.sourcePath,
     sourceAttribute |-> link.sourceAttribute,
     sourceValue |-> link.sourceValue,
     label |-> link.label]

Void(op) == [op |-> op, args |-> <<>>, value |-> <<>>]

\* a key that has a bucket keeps it: the first link under a key wins
addReferenceKeepingFirst(link) ==
    LET sourceKey == createReferenceKey(link.sourcePath, link.sourceAttribute, link.sourceValue)
        targetKey == createReferenceKey(link.targetPath, link.targetAttribute, link.targetValue)
    IN  /\ Len(added) < MaxAdds
        /\ forwardMap' = IF sourceKey \in DOMAIN forwardMap THEN forwardMap
                         ELSE MapSet(forwardMap, sourceKey, <<ReferenceTarget(link)>>)
        /\ reverseMap' = IF targetKey \in DOMAIN reverseMap THEN reverseMap
                         ELSE MapSet(reverseMap, targetKey, <<ReferenceSource(link)>>)
        /\ added' = Append(added, link)
        /\ ret' = Void("addReference")
        /\ UNCHANGED <<cleared, stale, loads>>

\* a link equal to one already registered is not registered again
addReferenceDeduplicating(link) ==
    LET sourceKey == createReferenceKey(link.sourcePath, link.sourceAttribute, link.sourceValue)
        targetKey == createReferenceKey(link.targetPath, link.targetAttribute, link.targetValue)
        existingTargets == MapGet(forwardMap, sourceKey)
        existingSources == MapGet(reverseMap, targetKey)
        present == \E i \in 1..Len(added) : added[i] = link
    IN  /\ Len(added) < MaxAdds
        /\ forwardMap' = IF present THEN forwardMap
                         ELSE MapSet(forwardMap, sourceKey,
                                     Append(existingTargets, ReferenceTarget(link)))
        /\ reverseMap' = IF present THEN reverseMap
                         ELSE MapSet(reverseMap, targetKey,
                                     Append(existingSources, ReferenceSource(link)))
        /\ added' = Append(added, link)
        /\ ret' = Void("addReference")
        /\ UNCHANGED <<cleared, stale, loads>>

addReferenceReverseUnderSourceKey(link) ==
    LET sourceKey == createReferenceKey(link.sourcePath, link.sourceAttribute, link.sourceValue)
        existingTargets == MapGet(forwardMap, sourceKey)
        existingSources == MapGet(reverseMap, sourceKey)
    IN  /\ Len(added) < MaxAdds
        /\ forwardMap' = MapSet(forwardMap, sourceKey,
                                Append(existingTargets, ReferenceTarget(link)))
        /\ reverseMap' = MapSet(reverseMap, sourceKey,
                                Append(existingSources, ReferenceSource(link)))
        /\ added' = Append(added, link)
        /\ ret' = Void("addReference")
        /\ UNCHANGED <<cleared, stale, loads>>

addReferenceReplacing(link) ==
    LET sourceKey == createReferenceKey(link.sourcePath, link.sourceAttribute, link.sourceValue)
        targetKey == createReferenceKey(link.targetPath, link.targetAttribute, link.targetValue)
    IN  /\ Len(added) < MaxAdds
        /\ forwardMap' = MapSet(forwardMap, sourceKey, <<ReferenceTarget(link)>>)
        /\ reverseMap' = MapSet(reverseMap, targetKey, <<ReferenceSource(link)>>)
        /\ added' = Append(added, link)
        /\ ret' = Void("addReference")
        /\ UNCHANGED <<cleared, stale, loads>>

addReference(link) ==
    LET sourceKey == createReferenceKey(link.sourcePath, link.sourceAttribute, link.sourceValue)
        targetKey == createReferenceKey(link.targetPath, link.targetAttribute, link.targetValue)
        existingTargets == MapGet(forwardMap, sourceKey)
        existingSources == MapGet(reverseMap, targetKey)
    IN  /\ Len(added) < MaxAdds
        /\ forwardMap' = MapSet(forwardMap, sourceKey,
                                Append(existingTargets, ReferenceTarget(link)))
        /\ reverseMap' = MapSet(reverseMap, targetKey,
                                Append(existingSources, ReferenceSource(link)))
        /\ added' = Append(added, link)
        /\ ret' = Void("addReference")
        /\ UNCHANGED <<cleared, stale, loads>>

getReferencesFrom(path, attribute, value) ==
    MapGet(forwardMap, createReferenceKey(path, attribute, value))

getReferencesTo(path, attribute, value) ==
    MapGet(reverseMap, createReferenceKey(path, attribute, value))

CallGetReferencesFromInserting(path, attribute, value) ==
    LET key == createReferenceKey(path, attribute, value)
    IN  /\ ret' = [op |-> "getReferencesFrom", args |-> <<path, attribute, value>>,
                   value |-> getReferencesFrom(path, attribute, value)]
        /\ forwardMap' = MapSet(forwardMap, key, MapGet(forwardMap, key))
        /\ UNCHANGED <<reverseMap, added, cleared, stale, loads>>

CallGetReferencesFrom(path, attribute, value) ==
    /\ ret' = [op |-> "getReferencesFrom", args |-> <<path, attribute, value>>,
               value |-> getReferencesFrom(path, attribute, value)]
    /\ UNCHANGED <<forwardMap, reverseMap, added, cleared, stale, loads>>

CallGetReferencesTo(path, attribute, value) ==
    /\ ret' = [op |-> "getReferencesTo", args |-> <<path, attribute, value>>,
               value |-> getReferencesTo(path, attribute, value)]
    /\ UNCHANGED <<forwardMap, reverseMap, added, cleared, stale, loads>>

clearMapsForwardOnly ==
    /\ forwardMap' = EmptyMap
    /\ reverseMap' = reverseMap

clearMapsReverseOnly ==
    /\ forwardMap' = forwardMap
    /\ reverseMap' = EmptyMap

clearMaps ==
    /\ forwardMap' = EmptyMap
    /\ reverseMap' = EmptyMap

clear ==
    /\ clearMaps
    /\ added' = <<>>
    /\ cleared' = (cleared \/ added # <<>>)
    /\ ret' = Void("clear")
    /\ UNCHANGED <<stale, loads>>

Range(seq) == {seq[i] : i \in 1..Len(seq)}

\* Package replacement by the application shell: the new container becomes
\* the active package and the shared Reference Map is cleared.
LoadPackage ==
    /\ loads < MaxLoads
    /\ clearMaps
    /\ loads' = loads + 1
    /\ stale' = stale \cup Range(added)
    /\ added' = <<>>
    /\ ret' = Void("loadPackage")
    /\ UNCHANGED cleared

(***************************************************************************)
(* Reference Map: the identity of the bucket arrays                        *)
(*                                                                         *)
(* forwardMap and reverseMap above hold the content of each bucket. A      *)
(* caller of getReferencesFrom / getReferencesTo receives the array object *)
(* itself, so what a later call does to that object is seen by the caller. *)
(* heap[id] is the content of array object id; buckets says which object   *)
(* each key holds.                                                         *)
(***************************************************************************)
NoBuckets == [forward |-> EmptyMap, reverse |-> EmptyMap]

\* map.get(key) ?? [] as content
bucketContent(refs, key) == IF key \in DOMAIN refs THEN heap[refs[key]] ELSE <<>>

\* existing.push(item): the array object the bucket holds is extended
storeBucketsInPlace(link) ==
    LET sourceKey == createReferenceKey(link.sourcePath, link.sourceAttribute, link.sourceValue)
        targetKey == createReferenceKey(link.targetPath, link.targetAttribute, link.targetValue)
        hasForward == sourceKey \in DOMAIN buckets.forward
        afterForward == IF hasForward
                        THEN [heap EXCEPT ![buckets.forward[sourceKey]] =
                                            Append(@, ReferenceTarget(link))]
                        ELSE Append(heap, <<ReferenceTarget(link)>>)
        hasReverse == targetKey \in DOMAIN buckets.reverse
        afterReverse == IF hasReverse
                        THEN [afterForward EXCEPT ![buckets.reverse[targetKey]] =
                                                    Append(@, ReferenceSource(link))]
                        ELSE Append(afterForward, <<ReferenceSource(link)>>)
    IN  /\ Len(heap) + 2 <= MaxArrays
        /\ heap' = afterReverse
        /\ buckets' = [forward |-> IF hasForward THEN buckets.forward
                                   ELSE MapSet(buckets.forward, sourceKey, Len(heap) + 1),
                       reverse |-> IF hasReverse THEN buckets.reverse
                                   ELSE MapSet(buckets.reverse, targetKey, Len(afterForward) + 1)]
        /\ UNCHANGED handedOut

\* what addReference does to the array objects: map.set(key, [...existing, item])
\* puts a new array object under the key, twice
storeBuckets(link) ==
    LET sourceKey == createReferenceKey(link.sourcePath, link.sourceAttribute, link.sourceValue)
        targetKey == createReferenceKey(link.targetPath, link.targetAttribute, link.targetValue)
        existingTargets == bucketContent(buckets.forward, sourceKey)
        existingSources == bucketContent(buckets.reverse, targetKey)
    IN  /\ Len(heap) + 2 <= MaxArrays
        /\ heap' = heap \o << Append(existingTargets, ReferenceTarget(link)),
                              Append(existingSources, ReferenceSource(link)) >>
        /\ buckets' = [forward |-> MapSet(buckets.forward, sourceKey, Len(heap) + 1),
                       reverse |-> MapSet(buckets.reverse, targetKey, Len(heap) + 2)]
        /\ UNCHANGED handedOut

\* what getReferencesFrom / getReferencesTo hand to the caller: the array
\* object under the key, or a new empty array
handOut(refs, key) ==
    IF key \in DOMAIN refs
    THEN /\ handedOut' = handedOut \cup { [ref |-> refs[key], value |-> heap[refs[key]]] }
         /\ UNCHANGED <<heap, buckets>>
    ELSE /\ Len(heap) + 1 <= MaxArrays
         /\ heap' = Append(heap, <<>>)
         /\ handedOut' = handedOut \cup { [ref |-> Len(heap) + 1, value |-> <<>>] }
         /\ UNCHANGED buckets

\* Map.prototype.clear on both maps: the keys go, the array objects stay
dropBuckets ==
    /\ buckets' = NoBuckets
    /\ UNCHANGED <<heap, handedOut>>

AddReferenceOnHeap(link) == addReference(link) /\ storeBuckets(link)

GetReferencesFromOnHeap(path, attribute, value) ==
    /\ CallGetReferencesFrom(path, attribute, value)
    /\ handOut(buckets.forward, createReferenceKey(path, attribute, value))

GetReferencesToOnHeap(path, attribute, value) ==
    /\ CallGetReferencesTo(path, attribute, value)
    /\ handOut(buckets.reverse, createReferenceKey(path, attribute, value))

ClearOnHeap == clear /\ dropBuckets

(***************************************************************************)
(* Relationship resolver (core/relationships.ts)                           *)
(***************************************************************************)
Slash == "/"

IndexOf(s, c) ==
    IF \E i \in 1..Len(s) : s[i] = c
    THEN CHOOSE i \in 1..Len(s) : s[i] = c /\ \A j \in 1..(i - 1) : s[j] # c
    ELSE 0

LastIndexOf(s, c) ==
    IF \E i \in 1..Len(s) : s[i] = c
    THEN CHOOSE i \in 1..Len(s) : s[i] = c /\ \A j \in (i + 1)..Len(s) : s[j] # c
    ELSE 0

\* String.prototype.split on a one-character separator: "" gives <<"">>
RECURSIVE split(_, _)
split(s, c) ==
    IF IndexOf(s, c) = 0 THEN <<s>>
    ELSE <<SubSeq(s, 1, IndexOf(s, c) - 1)>> \o split(SubSeq(s, IndexOf(s, c) + 1, Len(s)), c)

\* Array.prototype.join
RECURSIVE join(_, _)
join(parts, c) ==
    IF parts = <<>> THEN <<>>
    ELSE IF Len(parts) = 1 THEN parts[1]
    ELSE parts[1] \o <<c>> \o join(Tail(parts), c)

startsWith(s, prefix) ==
    Len(s) >= Len(prefix) /\ SubSeq(s, 1, Len(prefix)) = prefix

endsWith(s, suffix) ==
    Len(s) >= Len(suffix) /\ SubSeq(s, Len(s) - Len(suffix) + 1, Len(s)) = suffix

Dot == <<".">>

DotDot == <<".", ".">>

\* Array.prototype.pop: nothing happens on an empty array
pop(stack) == IF stack = <<>> THEN <<>> ELSE SubSeq(stack, 1, Len(stack) - 1)

RECURSIVE normalizeLoopKeepingDot(_, _)
normalizeLoopKeepingDot(parts, stack) ==
    IF parts = <<>> THEN stack
    ELSE IF Head(parts) = <<>> THEN normalizeLoopKeepingDot(Tail(parts), stack)
    ELSE IF Head(parts) = DotDot THEN normalizeLoopKeepingDot(Tail(parts), pop(stack))
    ELSE normalizeLoopKeepingDot(Tail(parts), Append(stack, Head(parts)))

\* the for-loop of normalizeTargetPath
RECURSIVE normalizeLoop(_, _)
normalizeLoop(parts, stack) ==
    IF parts = <<>> THEN stack
    ELSE IF Head(parts) = <<>> \/ Head(parts) = Dot THEN normalizeLoop(Tail(parts), stack)
    ELSE IF Head(parts) = DotDot THEN normalizeLoop(Tail(parts), pop(stack))
    ELSE normalizeLoop(Tail(parts), Append(stack, Head(parts)))

normalizeTargetPath(path) == join(normalizeLoop(split(path, Slash), <<>>), Slash)

RelsName == <<"_", "r", "e", "l", "s">>

RelsSuffix == <<".", "r", "e", "l", "s">>

\* Array.prototype.lastIndexOf, 0-based, -1 when absent
ArrayIndexOf(arr, x) ==
    IF \E i \in 1..Len(arr) : arr[i] = x
    THEN (CHOOSE i \in 1..Len(arr) : arr[i] = x /\ \A j \in 1..(i - 1) : arr[j] # x) - 1
    ELSE -1

ArrayLastIndexOf(arr, x) ==
    IF \E i \in 1..Len(arr) : arr[i] = x
    THEN (CHOOSE i \in 1..Len(arr) : arr[i] = x /\ \A j \in (i + 1)..Len(arr) : arr[j] # x) - 1
    ELSE -1

\* Array.prototype.slice(0, end) for end >= 0
SliceTo(arr, end) == SubSeq(arr, 1, IF end < Len(arr) THEN end ELSE Len(arr))

sourcePathFromRelationshipsPath(path) ==
    LET allSegments == split(path, Slash)
        relsIndex == ArrayLastIndexOf(allSegments, RelsName)
        filename == allSegments[Len(allSegments)]
        segments == pop(allSegments)
        baseName == IF endsWith(filename, RelsSuffix)
                    THEN SubSeq(filename, 1, Len(filename) - 5)
                    ELSE filename
        folder == IF relsIndex = -1
                  THEN join(segments, Slash)
                  ELSE join(SliceTo(segments, relsIndex), Slash)
    IN  IF baseName = RelsSuffix /\ folder = <<>> THEN <<>>
        ELSE IF folder = <<>> THEN baseName
        ELSE folder \o <<Slash>> \o baseName

resolveRelationshipTargetAlwaysRelative(sourcePath, target) ==
    IF target = <<>> THEN <<>>
    ELSE LET folder == IF IndexOf(sourcePath, Slash) # 0
                       THEN SubSeq(sourcePath, 1, LastIndexOf(sourcePath, Slash))
                       ELSE <<>>
         IN  normalizeTargetPath(folder \o target)

resolveRelationshipTarget(sourcePath, target) ==
    IF target = <<>> THEN <<>>
    ELSE IF startsWith(target, <<Slash>>) THEN normalizeTargetPath(SubSeq(target, 2, Len(target)))
    ELSE LET folder == IF IndexOf(sourcePath, Slash) # 0
                       THEN SubSeq(sourcePath, 1, LastIndexOf(sourcePath, Slash))
                       ELSE <<>>
         IN  normalizeTargetPath(folder \o target)

\* A JavaScript object with string keys that are not array indices: its
\* entries in insertion order, as a sequence of <<key, value>>.
EmptyObject == <<>>

ObjHas(obj, key) == \E i \in 1..Len(obj) : obj[i][1] = key

ObjGet(obj, key) == obj[CHOOSE i \in 1..Len(obj) : obj[i][1] = key][2]

ObjSet(obj, key, value) ==
    IF ObjHas(obj, key)
    THEN [i \in 1..Len(obj) |-> IF obj[i][1] = key THEN <<key, value>> ELSE obj[i]]
    ELSE Append(obj, <<key, value>>)

ObjValues(obj) == [i \in 1..Len(obj) |-> obj[i][2]]

External == <<"e", "x", "t", "e", "r", "n", "a", "l">>

isExternalExactCase(relationship) ==
    relationship.targetMode = <<"E", "x", "t", "e", "r", "n", "a", "l">>

\* relationship.targetMode?.toLowerCase() === 'external'
isExternal(relationship) ==
    /\ relationship.targetMode # Undefined
    /\ toLowerCase(relationship.targetMode) = External

IndexedRelationship(relationship, resolvedTarget) ==
    [id |-> relationship.id, target |-> relationship.target, type |-> relationship.type,
     targetMode |-> relationship.targetMode, source |-> relationship.source,
     resolvedTarget |-> resolvedTarget]

\* the inner loop of buildRelationshipsBySource over Object.values(relMap)
RECURSIVE indexRelationships(_, _, _)
indexRelationships(targetMap, values, sourcePath) ==
    IF values = <<>> THEN targetMap
    ELSE LET relationship == Head(values)
             resolvedTarget == IF isExternal(relationship)
                               THEN relationship.target
                               ELSE resolveRelationshipTarget(sourcePath, relationship.target)
         IN  indexRelationships(
                 ObjSet(targetMap, relationship.id,
                        IndexedRelationship(relationship, resolvedTarget)),
                 Tail(values), sourcePath)

\* every .rels part starts its owner's map afresh
RECURSIVE buildLoopFreshMap(_, _)
buildLoopFreshMap(indexed, entries) ==
    IF entries = <<>> THEN indexed
    ELSE LET relsPath == Head(entries)[1]
             relMap == Head(entries)[2]
             sourcePath == sourcePathFromRelationshipsPath(relsPath)
         IN  buildLoopFreshMap(
                 ObjSet(indexed, sourcePath,
                        indexRelationships(EmptyObject, ObjValues(relMap), sourcePath)),
                 Tail(entries))

\* the outer loop of buildRelationshipsBySource over Object.entries(relationships)
RECURSIVE buildLoop(_, _)
buildLoop(indexed, entries) ==
    IF entries = <<>> THEN indexed
    ELSE LET relsPath == Head(entries)[1]
             relMap == Head(entries)[2]
             sourcePath == sourcePathFromRelationshipsPath(relsPath)
             targetMap == IF ObjHas(indexed, sourcePath)
                          THEN ObjGet(indexed, sourcePath)
                          ELSE EmptyObject
         IN  buildLoop(
                 ObjSet(indexed, sourcePath,
                        indexRelationships(targetMap, ObjValues(relMap), sourcePath)),
                 Tail(entries))

buildRelationshipsBySource(relationships) == buildLoop(EmptyObject, relationships)

\* what getAttribute returns for an attribute the element does not have
Null == <<"null">>

\* An element: a function from the names of its attributes to their values.
getAttribute(element, name) ==
    IF name \in DOMAIN element THEN element[name] ELSE Null

\* a ?? b
Coalesce(a, b) == IF a # Null THEN a ELSE b

\* !value, for a string or null
Falsy(value) == value = Null \/ value = <<>>

readTargetMode(relationship) ==
    Coalesce(Coalesce(getAttribute(relationship, "TargetMode"),
                      getAttribute(relationship, "targetMode")), Undefined)

\* an element without Id is fatal: the parse gives up and returns nothing
RECURSIVE parseLoopStoppingAtMalformed(_, _, _)
parseLoopStoppingAtMalformed(relationships, elements, source) ==
    IF elements = <<>> THEN relationships
    ELSE LET relationship == Head(elements)
             id == Coalesce(getAttribute(relationship, "Id"), getAttribute(relationship, "id"))
             target == Coalesce(getAttribute(relationship, "Target"),
                                getAttribute(relationship, "target"))
         IN  IF Falsy(id) \/ Falsy(target) THEN EmptyObject
             ELSE parseLoopStoppingAtMalformed(
                      ObjSet(relationships, id,
                             [id |-> id,
                              target |-> target,
                              type |-> Coalesce(Coalesce(getAttribute(relationship, "Type"),
                                                         getAttribute(relationship, "type")),
                                                Undefined),
                              targetMode |-> readTargetMode(relationship),
                              source |-> source]),
                      Tail(elements), source)

\* the loop of parseRelationships over the <Relationship> elements in
\* document order
RECURSIVE parseLoop(_, _, _)
parseLoop(relationships, elements, source) ==
    IF elements = <<>> THEN relationships
    ELSE LET relationship == Head(elements)
             id == Coalesce(getAttribute(relationship, "Id"), getAttribute(relationship, "id"))
             target == Coalesce(getAttribute(relationship, "Target"),
                                getAttribute(relationship, "target"))
         IN  IF Falsy(id) \/ Falsy(target)
             THEN parseLoop(relationships, Tail(elements), source)
             ELSE parseLoop(
                      ObjSet(relationships, id,
                             [id |-> id,
                              target |-> target,
                              type |-> Coalesce(Coalesce(getAttribute(relationship, "Type"),
                                                         getAttribute(relationship, "type")),
                                                Undefined),
                              targetMode |-> readTargetMode(relationship),
                              source |-> source]),
                      Tail(elements), source)

\* The outcome of a call that may throw.
Completed(value) == [threw |-> FALSE, value |-> value]

Thrown(error) == [threw |-> TRUE, error |-> error]

\* XML text is a record: whether it is well-formed, and the <Relationship>
\* elements of the document it parses to. parseXml throws on text the
\* platform parser reports a parsererror for.
parseXml(xml, path) ==
    IF xml.wellFormed THEN Completed([path |-> path, text |-> xml, document |-> xml.elements])
    ELSE Thrown([message |-> "Unable to parse XML", path |-> path])

\* xml is XML text (type "string") or a parsed document (type "Document")
parseRelationships(xml, source) ==
    IF xml.type = "string"
    THEN LET parsed == parseXml(xml, source)
         IN  IF parsed.threw THEN parsed
             ELSE Completed(parseLoop(EmptyObject, parsed.value.document, source))
    ELSE Completed(parseLoop(EmptyObject, xml.elements, source))

NoCall == [fn |-> "none", sourcePath |-> <<>>, target |-> <<>>, relationships |-> <<>>]

Pending == [done |-> FALSE, value |-> <<>>]

Returned(value) == [done |-> TRUE, value |-> value]

CallResolve ==
    /\ relCall.fn = "resolveRelationshipTarget"
    /\ ~relResult.done
    /\ relResult' = Returned(resolveRelationshipTarget(relCall.sourcePath, relCall.target))
    /\ UNCHANGED <<relCall, refVars, zipVars, tabVars, heapVars>>

CallBuild ==
    /\ relCall.fn = "buildRelationshipsBySource"
    /\ ~relResult.done
    /\ relResult' = Returned(buildRelationshipsBySource(relCall.relationships))
    /\ UNCHANGED <<relCall, refVars, zipVars, tabVars, heapVars>>

CallSourcePath ==
    /\ relCall.fn = "sourcePathFromRelationshipsPath"
    /\ ~relResult.done
    /\ relResult' = Returned(sourcePathFromRelationshipsPath(relCall.path))
    /\ UNCHANGED <<relCall, refVars, zipVars, tabVars, heapVars>>

CallParse ==
    /\ relCall.fn = "parseRelationships"
    /\ ~relResult.done
    /\ relResult' = Returned(parseRelationships(relCall.xml, relCall.source))
    /\ UNCHANGED <<relCall, refVars, zipVars, tabVars, heapVars>>

(***************************************************************************)
(* Container reader (core/jszip-lite.ts)                                   *)
(*                                                                         *)
(* A buffer is described by its length, the offsets at which the four      *)
(* bytes of the End-Of-Central-Directory signature occur, and the records  *)
(* of the central directory that record points to. Bytes are a record of   *)
(* their number, the text they decode to, and what inflating them as a raw *)
(* deflate stream gives (<<>> when they are not a deflate stream, else     *)
(* <<the inflated bytes>>).                                                *)
(***************************************************************************)
CENTRAL_DIRECTORY_SIGNATURE == 33639248

LOCAL_FILE_HEADER_SIGNATURE == 67324752

Max(a, b) == IF a > b THEN a ELSE b

findEndOfCentralDirectory(data) ==
    LET minOffset == Max(0, data.length - 65536)
        found == { i \in data.signatures : i <= data.length - 22 /\ i >= minOffset }
    IN  IF found = {} THEN -1 ELSE CHOOSE i \in found : \A j \in found : j <= i

Error(message) == [message |-> message]

UnsupportedCompression(compressionMethod) ==
    [message |-> "Unsupported compression method", method |-> compressionMethod]

inflateRaw(data) ==
    IF data.inflated = <<>> THEN Thrown(Error("inflate failed"))
    ELSE Completed(data.inflated[1])

\* every method other than Deflate is read as Store
decompressAsStore(compressionMethod, compressedData) ==
    IF compressionMethod = 8 THEN inflateRaw(compressedData) ELSE Completed(compressedData)

decompress(compressionMethod, compressedData) ==
    IF compressionMethod = 0 THEN Completed(compressedData)
    ELSE IF compressionMethod = 8 THEN inflateRaw(compressedData)
    ELSE Thrown(UnsupportedCompression(compressionMethod))

NoText == [wellFormed |-> FALSE, elements |-> <<>>]

\* new Uint8Array(0)
EmptyBytes == [size |-> 0, text |-> NoText, inflated |-> <<>>]

ParsedEntry(record, payload) ==
    [name |-> record.name, dir |-> endsWith(record.name, <<Slash>>),
     compressedSize |-> record.compressedSize, uncompressedSize |-> record.uncompressedSize,
     compressionMethod |-> record.compressionMethod, date |-> record.date, data |-> payload]

JSZipObject(name, dir, data, date) ==
    [name |-> name, dir |-> dir, date |-> date, comment |-> <<>>, data |-> data]

\* every record gets an entry of its own, whatever its name
zipFilesKeepingEvery(files, entries) ==
    files \o [i \in 1..Len(entries) |->
                <<entries[i].name,
                  JSZipObject(entries[i].name, entries[i].dir, entries[i].data,
                              entries[i].date)>>]

\* the loop of JSZip.loadAsync over the parsed entries
RECURSIVE zipFiles(_, _)
zipFiles(files, entries) ==
    IF entries = <<>> THEN files
    ELSE LET entry == Head(entries)
         IN  zipFiles(ObjSet(files, entry.name,
                             JSZipObject(entry.name, entry.dir, entry.data, entry.date)),
                      Tail(entries))

(***************************************************************************)
(* Package loader (core/zip-loader.ts)                                     *)
(***************************************************************************)
xmlExtensions == { <<".", "x", "m", "l">>, RelsSuffix }

getExtension(path) ==
    IF LastIndexOf(path, ".") > 0
    THEN toLowerCase(SubSeq(path, LastIndexOf(path, "."), Len(path)))
    ELSE <<>>

getFolder(path) ==
    IF LastIndexOf(path, Slash) = 0 THEN <<>>
    ELSE SubSeq(path, 1, LastIndexOf(path, Slash) - 1)

decodeText(buffer) == buffer.text

\* String.prototype.localeCompare in the root collation, for the characters
\* of part names: "_" before "." before "/" before the letters
CollationOrder == <<"_", ".", "/">> \o Lowers

CollationRank(c) == CHOOSE i \in 1..Len(CollationOrder) : CollationOrder[i] = c

RECURSIVE localeCompare(_, _)
localeCompare(a, b) ==
    IF a = <<>> /\ b = <<>> THEN 0
    ELSE IF a = <<>> THEN -1
    ELSE IF b = <<>> THEN 1
    ELSE IF CollationRank(Head(a)) < CollationRank(Head(b)) THEN -1
    ELSE IF CollationRank(Head(a)) > CollationRank(Head(b)) THEN 1
    ELSE localeCompare(Tail(a), Tail(b))

\* files.sort((a, b) => a.metadata.path.localeCompare(b.metadata.path)):
\* a stable sort, here by insertion
RECURSIVE insertFile(_, _)
insertFile(sorted, file) ==
    IF sorted = <<>> THEN <<file>>
    ELSE IF localeCompare(file.metadata.path, sorted[Len(sorted)].metadata.path) >= 0
    THEN Append(sorted, file)
    ELSE Append(insertFile(SubSeq(sorted, 1, Len(sorted) - 1), file), sorted[Len(sorted)])

RECURSIVE sortFiles(_)
sortFiles(files) ==
    IF files = <<>> THEN <<>>
    ELSE insertFile(sortFiles(SubSeq(files, 1, Len(files) - 1)), files[Len(files)])

\* Object.fromEntries(files.map((file) => [file.metadata.path, file]))
RECURSIVE fromEntries(_, _)
fromEntries(object, files) ==
    IF files = <<>> THEN object
    ELSE fromEntries(ObjSet(object, Head(files).metadata.path, Head(files)), Tail(files))

\* A file whose text is undefined is a record without text.
PackageFile(entry, arrayBuffer) ==
    LET path == entry.name
        extension == getExtension(path)
        isXml == extension \in xmlExtensions
        metadata == [path |-> path,
                     name |-> split(path, Slash)[Len(split(path, Slash))],
                     folder |-> getFolder(path),
                     extension |-> extension,
                     isXml |-> isXml,
                     lastModified |-> entry.date,
                     size |-> arrayBuffer.size]
    IN  IF isXml
        THEN [metadata |-> metadata, arrayBuffer |-> arrayBuffer,
              text |-> decodeText(arrayBuffer)]
        ELSE [metadata |-> metadata, arrayBuffer |-> arrayBuffer]

\* The promise of one loadDocxPackage call.
NoPromise == [state |-> "none"]

PendingPromise == [state |-> "pending"]

Fulfilled(value) == [state |-> "fulfilled", value |-> value]

Rejected(reason) == [state |-> "rejected", reason |-> reason]

\* The application has no package active.
NoModel == [loaded |-> FALSE]

NoArchive == [length |-> 0, signatures |-> {}, records |-> <<>>]

\* No call is running.
Idle ==
    [pc |-> "idle", i |-> 0, entries |-> <<>>, zip |-> EmptyObject, j |-> 0, files |-> <<>>,
     xmlDocuments |-> EmptyObject, relationships |-> EmptyObject]

\* an error ends the call with what it has built so far
ThrowReturningPartial(error) ==
    /\ promise' = Fulfilled([files |-> sortFiles(ld.files),
                             byPath |-> fromEntries(EmptyObject, sortFiles(ld.files)),
                             xmlDocuments |-> ld.xmlDocuments,
                             relationships |-> ld.relationships])
    /\ ld' = [Idle EXCEPT !.pc = "settled"]

\* An exception leaves parseEntries, JSZip.loadAsync and loadDocxPackage:
\* the locals are dropped and the promise rejects.
Throw(error) ==
    /\ promise' = Rejected(error)
    /\ ld' = [Idle EXCEPT !.pc = "settled"]

CallFind ==
    /\ relCall.fn = "findEndOfCentralDirectory"
    /\ ~relResult.done
    /\ relResult' = Returned(findEndOfCentralDirectory(relCall.data))
    /\ UNCHANGED <<relCall, refVars, zipVars, tabVars, heapVars>>

\* loadDocxPackage(input) is called: it returns a pending promise and
\* awaits JSZip.loadAsync(input)
StartLoad(input) ==
    /\ ld.pc = "idle"
    /\ archive' = input
    /\ ld' = [Idle EXCEPT !.pc = "parseEntries"]
    /\ promise' = PendingPromise
    /\ UNCHANGED <<activeModel, refVars, relVars, tabVars, heapVars>>

\* parseEntries up to its loop
LocateDirectory ==
    /\ ld.pc = "parseEntries"
    /\ IF findEndOfCentralDirectory(archive) < 0
       THEN Throw(Error("Invalid ZIP: could not locate end of central directory"))
       ELSE /\ ld' = [ld EXCEPT !.pc = "record", !.i = 1]
            /\ UNCHANGED promise
    /\ UNCHANGED <<archive, activeModel, refVars, relVars, tabVars, heapVars>>

\* a record with a wrong signature ends the directory: the entries read so
\* far are returned
ParseRecordStoppingAtCorrupt ==
    /\ ld.pc = "record"
    /\ ld.i <= Len(archive.records)
    /\ LET record == archive.records[ld.i]
       IN  IF \/ record.signature # CENTRAL_DIRECTORY_SIGNATURE
              \/ record.localSignature # LOCAL_FILE_HEADER_SIGNATURE
           THEN ld' = [ld EXCEPT !.i = Len(archive.records) + 1]
           ELSE IF endsWith(record.name, <<Slash>>)
           THEN ld' = [ld EXCEPT !.entries = Append(@, ParsedEntry(record, EmptyBytes)),
                                 !.i = @ + 1]
           ELSE ld' = [ld EXCEPT !.pc = "decompress"]
    /\ UNCHANGED <<promise, archive, activeModel, refVars, relVars, tabVars, heapVars>>

\* one turn of the loop of parseEntries, up to the await of decompress
ParseRecord ==
    /\ ld.pc = "record"
    /\ ld.i <= Len(archive.records)
    /\ LET record == archive.records[ld.i]
       IN  IF record.signature # CENTRAL_DIRECTORY_SIGNATURE
           THEN Throw(Error("Invalid ZIP: corrupt central directory entry"))
           ELSE IF record.localSignature # LOCAL_FILE_HEADER_SIGNATURE
           THEN Throw(Error("Invalid ZIP: missing local file header"))
           ELSE IF endsWith(record.name, <<Slash>>)
           THEN /\ ld' = [ld EXCEPT !.entries = Append(@, ParsedEntry(record, EmptyBytes)),
                                    !.i = @ + 1]
                /\ UNCHANGED promise
           ELSE /\ ld' = [ld EXCEPT !.pc = "decompress"]
                /\ UNCHANGED promise
    /\ UNCHANGED <<archive, activeModel, refVars, relVars, tabVars, heapVars>>

\* decompress settles and the turn of the loop ends
Decompress ==
    /\ ld.pc = "decompress"
    /\ LET record == archive.records[ld.i]
           payload == decompress(record.compressionMethod, record.data)
       IN  IF payload.threw THEN Throw(payload.error)
           ELSE /\ ld' = [ld EXCEPT !.entries = Append(@, ParsedEntry(record, payload.value)),
                                    !.i = @ + 1, !.pc = "record"]
                /\ UNCHANGED promise
    /\ UNCHANGED <<archive, activeModel, refVars, relVars, tabVars, heapVars>>

\* parseEntries returns; JSZip.loadAsync builds the files record and
\* returns to loadDocxPackage
LoadAsyncReturn ==
    /\ ld.pc = "record"
    /\ ld.i > Len(archive.records)
    /\ ld' = [ld EXCEPT !.pc = "entry", !.zip = zipFiles(EmptyObject, ld.entries), !.j = 1]
    /\ UNCHANGED <<promise, archive, activeModel, refVars, relVars, tabVars, heapVars>>

\* directory entries are read like files
ReadEntryKeepingDirectories ==
    /\ ld.pc = "entry"
    /\ ld.j <= Len(ld.zip)
    /\ ld' = [ld EXCEPT !.pc = "async"]
    /\ UNCHANGED <<promise, archive, activeModel, refVars, relVars, tabVars, heapVars>>

\* one turn of the loop of loadDocxPackage, up to the await of entry.async
ReadEntry ==
    /\ ld.pc = "entry"
    /\ ld.j <= Len(ld.zip)
    /\ ld' = IF ld.zip[ld.j][2].dir THEN [ld EXCEPT !.j = @ + 1] ELSE [ld EXCEPT !.pc = "async"]
    /\ UNCHANGED <<promise, archive, activeModel, refVars, relVars, tabVars, heapVars>>

\* the rest of the turn: the file, its XML document, its relationships
IndexEntry ==
    /\ ld.pc = "async"
    /\ LET entry == ld.zip[ld.j][2]
           file == PackageFile(entry, entry.data)
           path == entry.name
           parsed == parseXml(file.text, path)
       IN  IF ~file.metadata.isXml
           THEN /\ ld' = [ld EXCEPT !.files = Append(@, file), !.j = @ + 1, !.pc = "entry"]
                /\ UNCHANGED promise
           ELSE IF parsed.threw THEN Throw(parsed.error)
           ELSE /\ ld' = [ld EXCEPT
                            !.files = Append(@, file),
                            !.xmlDocuments = ObjSet(@, path, parsed.value),
                            !.relationships =
                                IF endsWith(toLowerCase(path), RelsSuffix)
                                THEN ObjSet(@, path,
                                            parseRelationships(
                                                [type |-> "Document",
                                                 elements |-> parsed.value.document],
                                                path).value)
                                ELSE @,
                            !.j = @ + 1,
                            !.pc = "entry"]
                /\ UNCHANGED promise
    /\ UNCHANGED <<archive, activeModel, refVars, relVars, tabVars, heapVars>>

\* after the loop: sort, byPath, return
ReturnModel ==
    /\ ld.pc = "entry"
    /\ ld.j > Len(ld.zip)
    /\ promise' = Fulfilled([files |-> sortFiles(ld.files),
                             byPath |-> fromEntries(EmptyObject, sortFiles(ld.files)),
                             xmlDocuments |-> ld.xmlDocuments,
                             relationships |-> ld.relationships])
    /\ ld' = [Idle EXCEPT !.pc = "settled"]
    /\ UNCHANGED <<archive, activeModel, refVars, relVars, tabVars, heapVars>>

\* The application's handler of the settled promise: a model becomes the
\* active one, an error is reported and the active model stays.
Settle ==
    /\ ld.pc = "settled"
    /\ activeModel' = IF promise.state = "fulfilled" THEN promise.value ELSE activeModel
    /\ ld' = Idle
    /\ UNCHANGED <<promise, archive, refVars, relVars, tabVars, heapVars>>

(***************************************************************************)
(* Tab store (ui/tabs/tab-store.ts)                                        *)
(*                                                                         *)
(* An optional object (scrollTarget) is <<>> when absent and <<object>>    *)
(* when present; an optional string (content) is Undefined when absent.    *)
(***************************************************************************)
TabStoreState(tabList, active) == [tabs |-> tabList, activePath |-> active]

\* state.tabs.findIndex((tab) => tab.path === path), 1-based, 0 when absent
findIndex(tabList, path) ==
    IF \E i \in 1..Len(tabList) : tabList[i].path = path
    THEN CHOOSE i \in 1..Len(tabList) :
            /\ tabList[i].path = path
            /\ \A j \in 1..(i - 1) : tabList[j].path # path
    ELSE 0

\* state.tabs.filter((tab) => tab.path !== path)
filterOut(tabList, path) == SelectSeq(tabList, LAMBDA tab : tab.path # path)

TabRecord(detail, content, scrollTarget) ==
    [path |-> detail.path, name |-> detail.name, kind |-> detail.kind,
     content |-> content, scrollTarget |-> scrollTarget]

\* the last call on the TabStoreHandle and the listeners notify() called in it
TabCall(op, args, notified) == [op |-> op, args |-> args, notified |-> notified]

\* notify(): every subscribed listener is called with the new state
notify(op, args) == tabCall' = TabCall(op, args, listeners)

noNotify(op, args) == tabCall' = TabCall(op, args, {})

openAlwaysAppending(detail, content, scrollTarget) ==
    /\ Len(state.tabs) < MaxTabs
    /\ state' = TabStoreState(Append(state.tabs, TabRecord(detail, content, scrollTarget)),
                              detail.path)
    /\ notify("open", <<detail.path>>)
    /\ UNCHANGED listeners

open(detail, content, scrollTarget) ==
    LET existingIndex == findIndex(state.tabs, detail.path)
    IN  IF existingIndex >= 1
        THEN LET existing == state.tabs[existingIndex]
                 updated == IF scrollTarget # <<>>
                            THEN [existing EXCEPT !.scrollTarget = scrollTarget]
                            ELSE existing
             IN  /\ state' = TabStoreState([state.tabs EXCEPT ![existingIndex] = updated],
                                           detail.path)
                 /\ notify("open", <<detail.path>>)
                 /\ UNCHANGED listeners
        ELSE /\ Len(state.tabs) < MaxTabs
             /\ state' = TabStoreState(
                            Append(state.tabs, TabRecord(detail, content, scrollTarget)),
                            detail.path)
             /\ notify("open", <<detail.path>>)
             /\ UNCHANGED listeners

closeKeepingActive(path) ==
    /\ state' = TabStoreState(filterOut(state.tabs, path), state.activePath)
    /\ notify("close", <<path>>)
    /\ UNCHANGED listeners

close(path) ==
    LET tabList == filterOut(state.tabs, path)
        removedActive == state.activePath = path
        nextActive == IF removedActive
                      THEN IF Len(tabList) >= 1 THEN tabList[Len(tabList)].path ELSE Null
                      ELSE state.activePath
    IN  /\ state' = TabStoreState(tabList, nextActive)
        /\ notify("close", <<path>>)
        /\ UNCHANGED listeners

closeAll ==
    /\ state' = TabStoreState(<<>>, Null)
    /\ notify("closeAll", <<>>)
    /\ UNCHANGED listeners

focus(path, scrollTarget) ==
    LET index == findIndex(state.tabs, path)
    IN  IF index = 0
        THEN /\ noNotify("focus", <<path>>)
             /\ UNCHANGED <<state, listeners>>
        ELSE LET tabList == IF scrollTarget # <<>>
                            THEN [state.tabs EXCEPT ![index].scrollTarget = scrollTarget]
                            ELSE state.tabs
             IN  IF state.activePath = path /\ scrollTarget = <<>>
                 THEN /\ noNotify("focus", <<path>>)
                      /\ UNCHANGED <<state, listeners>>
                 ELSE /\ state' = TabStoreState(tabList, path)
                      /\ notify("focus", <<path>>)
                      /\ UNCHANGED listeners

\* subscribe(listener): the listener is added and called at once
subscribe(listener) ==
    /\ listeners' = listeners \cup {listener}
    /\ tabCall' = TabCall("subscribe", <<listener>>, {listener})
    /\ UNCHANGED state

\* the function subscribe() returned: () => listeners.delete(listener)
unsubscribe(listener) ==
    /\ listener \in listeners
    /\ listeners' = listeners \ {listener}
    /\ noNotify("unsubscribe", <<listener>>)
    /\ UNCHANGED state

\* the FILE_OPENED listener of main.ts
FileOpened(detail, text) ==
    IF findIndex(state.tabs, detail.path) >= 1
    THEN focus(detail.path, <<>>)
    ELSE open(detail, text, <<>>)

NoTabs == TabStoreState(<<>>, Null)

NoTabCall == TabCall("createTabStore", <<>>, {})

(***************************************************************************)
(* XML viewer: reference detection (ui/xml-viewer/xml-viewer.ts)           *)
(*                                                                         *)
(* A detected reference is <<>> for null and <<reference>> otherwise; the  *)
(* context's relationshipsBySource is <<>> when undefined and <<object>>   *)
(* when present.                                                           *)
(***************************************************************************)
\* String.prototype.includes
includes(s, sub) ==
    \E i \in 0..(Len(s) - Len(sub)) : SubSeq(s, i + 1, i + Len(sub)) = sub

Digits == { "0", "1", "2", "3", "4", "5", "6", "7", "8", "9" }

\* /^\d+$/.test(value)
isNumber(value) == Len(value) >= 1 /\ \A i \in 1..Len(value) : value[i] \in Digits

\* /^rId\d+$/i.test(value)
isRId(value) ==
    /\ Len(value) >= 4
    /\ toLowerCase(SubSeq(value, 1, 3)) = <<"r", "i", "d">>
    /\ isNumber(SubSeq(value, 4, Len(value)))

looksLikeRelationshipId(attribute) ==
    LET name == toLowerCase(attribute.name)
        value == attribute.value
    IN  \/ name = <<"r", ":", "i", "d">>
        \/ endsWith(name, <<":", "i", "d">>)
        \/ name = <<"i", "d">>
        \/ isRId(value)

NoReference == <<>>

AttributeReference(targetPath, label, scrollTarget) ==
    << [targetPath |-> targetPath, label |-> label, scrollTarget |-> scrollTarget] >>

\* context.relationshipsBySource[context.sourcePath], EmptyObject for `undefined`
relationshipsOf(context) ==
    IF ObjHas(context.relationshipsBySource[1], context.sourcePath)
    THEN ObjGet(context.relationshipsBySource[1], context.sourcePath)
    ELSE EmptyObject

\* the label's arrow is written "->"
resolveRelationshipReference(attribute, context) ==
    IF \/ context.sourcePath = Undefined
       \/ context.relationshipsBySource = <<>>
       \/ ~looksLikeRelationshipId(attribute)
    THEN NoReference
    ELSE LET relationships == relationshipsOf(context)
         IN  IF ~ObjHas(relationships, attribute.value)
             THEN NoReference
             ELSE LET relationship == ObjGet(relationships, attribute.value)
                  IN  IF isExternal(relationship)
                      THEN NoReference
                      ELSE AttributeReference(
                               relationship.resolvedTarget,
                               attribute.value \o <<" ", "-", ">", " ">>
                                   \o relationship.resolvedTarget,
                               <<>>)

\* Object.values(relationships ?? {}).find((rel) =>
\*     (rel.type ?? '').toLowerCase().includes(fragment)): <<>> or <<rel>>
findByType(relationships, fragment) ==
    LET values == ObjValues(relationships)
        matches(rel) == rel.type # Undefined /\ includes(toLowerCase(rel.type), fragment)
    IN  IF \E i \in 1..Len(values) : matches(values[i])
        THEN << values[CHOOSE i \in 1..Len(values) :
                         /\ matches(values[i])
                         /\ \A j \in 1..(i - 1) : ~matches(values[j])] >>
        ELSE <<>>

\* the shared body of resolveCommentReference and resolveNoteReference:
\* `word` is looked for in the tag name, `fragment` in the relationship type
resolveTypedReference(word, fragment, attribute, element, context) ==
    IF context.sourcePath = Undefined \/ context.relationshipsBySource = <<>>
    THEN NoReference
    ELSE LET tagName == toLowerCase(element.tagName)
             attrName == toLowerCase(attribute.name)
             value == attribute.value
         IN  IF ~(includes(tagName, word) /\ endsWith(attrName, <<"i", "d">>)
                    /\ isNumber(value))
             THEN NoReference
             ELSE LET found == findByType(relationshipsOf(context), fragment)
                  IN  IF found = <<>>
                      THEN NoReference
                      ELSE AttributeReference(
                               found[1].resolvedTarget,
                               word \o <<" ">> \o value,
                               << [attribute |-> attribute.name, value |-> value] >>)

COMMENT == <<"c", "o", "m", "m", "e", "n", "t">>

FOOTNOTE == <<"f", "o", "o", "t", "n", "o", "t", "e">>

ENDNOTE == <<"e", "n", "d", "n", "o", "t", "e">>

resolveCommentReference(attribute, element, context) ==
    resolveTypedReference(COMMENT, <<"/">> \o COMMENT \o <<"s">>, attribute, element, context)

resolveNoteReference(noteType, attribute, element, context) ==
    resolveTypedReference(noteType, <<"/">> \o noteType \o <<"s">>, attribute, element, context)

resolveBookmarkReference(attribute, element, context) ==
    IF context.sourcePath = Undefined
    THEN NoReference
    ELSE LET tagName == toLowerCase(element.tagName)
             attrName == toLowerCase(attribute.name)
             value == attribute.value
         IN  IF ~(includes(tagName, <<"h", "y", "p", "e", "r", "l", "i", "n", "k">>)
                    /\ endsWith(attrName, <<"a", "n", "c", "h", "o", "r">>))
             THEN NoReference
             ELSE AttributeReference(
                      context.sourcePath,
                      <<"b", "o", "o", "k", "m", "a", "r", "k", " ">> \o value,
                      << [attribute |-> <<"n", "a", "m", "e">>, value |-> value] >>)

\* a ?? b on detected references
OrElse(a, b) == IF a # NoReference THEN a ELSE b

detectReference(attribute, element, context) ==
    OrElse(resolveRelationshipReference(attribute, context),
    OrElse(resolveCommentReference(attribute, element, context),
    OrElse(resolveNoteReference(FOOTNOTE, attribute, element, context),
    OrElse(resolveNoteReference(ENDNOTE, attribute, element, context),
           resolveBookmarkReference(attribute, element, context)))))

\* the link registerReferenceInMap passes to addReference
registeredLink(attribute, reference, context) ==
    [sourcePath |-> context.sourcePath,
     sourceAttribute |-> attribute.name,
     sourceValue |-> attribute.value,
     targetPath |-> reference.targetPath,
     targetAttribute |-> IF reference.scrollTarget # <<>>
                         THEN reference.scrollTarget[1].attribute
                         ELSE <<"i", "d">>,
     targetValue |-> IF reference.scrollTarget # <<>>
                     THEN reference.scrollTarget[1].value
                     ELSE attribute.value,
     label |-> reference.label]

\* createAttributeTokens up to the choice of what the value is rendered as:
\* detect the forward reference, register it, look up the reverse references
createAttributeTokens ==
    /\ relCall.fn = "createAttributeTokens"
    /\ ~relResult.done
    /\ LET attribute == relCall.attribute
           context == relCall.context
           forwardReference == detectReference(attribute, relCall.element, context)
       IN  /\ IF /\ forwardReference # NoReference
                 /\ context.referenceMap
                 /\ context.sourcePath # Undefined
                 /\ context.sourcePath # <<>>
              THEN addReference(registeredLink(attribute, forwardReference[1], context))
              ELSE UNCHANGED refVars
           /\ relResult' = Returned(
                  [forwardReference |-> forwardReference,
                   reverseReferences |->
                       IF context.referenceMap /\ context.sourcePath # Undefined
                                               /\ context.sourcePath # <<>>
                       THEN MapGet(reverseMap',
                                   createReferenceKey(context.sourcePath, attribute.name,
                                                      attribute.value))
                       ELSE <<>>])
    /\ UNCHANGED <<relCall, zipVars, tabVars, heapVars>>

(***************************************************************************)
(* Inputs of the Reference Map specification                               *)
(***************************************************************************)
T1 == <<<<"p">>, <<"w">>, <<"v">>>>
T2 == <<<<"p">>, <<"W">>, <<"v">>>>                     \* attribute differs by case
T3 == <<<<"P">>, <<"w">>, <<"v">>>>                     \* path differs by case
T4 == <<<<"p">>, <<"w">>, <<"V">>>>                     \* value differs by case
T5 == <<<<"p", ":", ":", "w">>, <<"w">>, <<"v">>>>      \* separator inside the path
T6 == <<<<"p">>, <<"w">>, <<"w", ":", ":", "v">>>>      \* separator inside the value

Triples == {T1, T2, T3, T4, T5, T6}

Labels == {Undefined, <<"l">>}

MakeLink(s, t, label) ==
    [sourcePath |-> s[1], sourceAttribute |-> s[2], sourceValue |-> s[3],
     targetPath |-> t[1], targetAttribute |-> t[2], targetValue |-> t[3],
     label |-> label]

\* every triple as a source of T1 and as a target of T1, and two labelled links
Links ==
    {MakeLink(s, T1, Undefined) : s \in Triples}
        \cup {MakeLink(T1, t, Undefined) : t \in Triples}
        \cup {MakeLink(T1, T1, <<"l">>), MakeLink(T2, T1, <<"l">>)}

PkgLinks == {MakeLink(T1, T3, Undefined), MakeLink(T2, T3, <<"l">>),
             MakeLink(T3, T1, Undefined), MakeLink(T4, T4, Undefined)}

Init ==
    /\ forwardMap = EmptyMap
    /\ reverseMap = EmptyMap
    /\ ret = Void("createReferenceMap")
    /\ added = <<>>
    /\ cleared = FALSE
    /\ stale = {}
    /\ loads = 0
    /\ relCall = NoCall
    /\ relResult = Pending
    /\ archive = NoArchive
    /\ ld = Idle
    /\ promise = NoPromise
    /\ activeModel = NoModel
    /\ state = NoTabs
    /\ listeners = {}
    /\ tabCall = NoTabCall
    /\ heap = <<>>
    /\ buckets = NoBuckets
    /\ handedOut = {}

Next ==
    \/ \E link \in Links : addReference(link) /\ UNCHANGED <<relVars, zipVars, tabVars, heapVars>>
    \/ \E t \in Triples : CallGetReferencesFrom(t[1], t[2], t[3]) /\ UNCHANGED <<relVars, zipVars, tabVars, heapVars>>
    \/ \E t \in Triples : CallGetReferencesTo(t[1], t[2], t[3]) /\ UNCHANGED <<relVars, zipVars, tabVars, heapVars>>
    \/ clear /\ UNCHANGED <<relVars, zipVars, tabVars, heapVars>>

Spec == Init /\ [][Next]_vars

\* The Reference Map as the application uses it across package replacements.
NextPkg ==
    \/ \E link \in PkgLinks : addReference(link) /\ UNCHANGED <<relVars, zipVars, tabVars, heapVars>>
    \/ \E t \in Triples : CallGetReferencesFrom(t[1], t[2], t[3]) /\ UNCHANGED <<relVars, zipVars, tabVars, heapVars>>
    \/ \E t \in Triples : CallGetReferencesTo(t[1], t[2], t[3]) /\ UNCHANGED <<relVars, zipVars, tabVars, heapVars>>
    \/ LoadPackage /\ UNCHANGED <<relVars, zipVars, tabVars, heapVars>>

SpecPkg == Init /\ [][NextPkg]_vars

(***************************************************************************)
(* Inputs of the Reference Map specification with array identities         *)
(***************************************************************************)
\* two links from T1, two links to T1, and a link between other keys
HeapLinks == { MakeLink(T1, T1, Undefined), MakeLink(T1, T3, <<"l">>),
               MakeLink(T3, T1, Undefined) }

HeapTriples == { T1, T3 }

NextHeap ==
    \/ \E link \in HeapLinks :
          AddReferenceOnHeap(link) /\ UNCHANGED <<relVars, zipVars, tabVars>>
    \/ \E t \in HeapTriples :
          GetReferencesFromOnHeap(t[1], t[2], t[3]) /\ UNCHANGED <<relVars, zipVars, tabVars>>
    \/ \E t \in HeapTriples :
          GetReferencesToOnHeap(t[1], t[2], t[3]) /\ UNCHANGED <<relVars, zipVars, tabVars>>
    \/ ClearOnHeap /\ UNCHANGED <<relVars, zipVars, tabVars>>

SpecHeap == Init /\ [][NextHeap]_vars

(***************************************************************************)
(* Inputs of the relationship-resolver specification                       *)
(***************************************************************************)
\* string literals of the source, its tests and the documented examples
WORD_DOCUMENT == <<"w", "o", "r", "d", "/", "d", "o", "c", "u", "m", "e", "n", "t", ".", "x", "m", "l">>

MEDIA_IMAGE == <<"m", "e", "d", "i", "a", "/", "i", "m", "a", "g", "e", ".", "p", "n", "g">>

ABS_CUSTOMXML == <<"/", "c", "u", "s", "t", "o", "m", "X", "m", "l", "/", "i", "t", "e", "m", "1", ".", "x", "m", "l">>

WORD_HEADER1 == <<"w", "o", "r", "d", "/", "h", "e", "a", "d", "e", "r", "1", ".", "x", "m", "l">>

UP_MEDIA_IMAGE2 == <<".", ".", "/", "m", "e", "d", "i", "a", "/", "i", "m", "a", "g", "e", "2", ".", "p", "n", "g">>

A_XML == <<"a", ".", "x", "m", "l">>

UP_UP_X == <<".", ".", "/", ".", ".", "/", "x">>

WORD_MEDIA_IMAGE == <<"w", "o", "r", "d", "/", "m", "e", "d", "i", "a", "/", "i", "m", "a", "g", "e", ".", "p", "n", "g">>

CUSTOMXML_ITEM1 == <<"c", "u", "s", "t", "o", "m", "X", "m", "l", "/", "i", "t", "e", "m", "1", ".", "x", "m", "l">>

MEDIA_IMAGE2 == <<"m", "e", "d", "i", "a", "/", "i", "m", "a", "g", "e", "2", ".", "p", "n", "g">>

X == <<"x">>

RELS_ROOT == <<"_", "r", "e", "l", "s", "/", ".", "r", "e", "l", "s">>

RELS_WORD_DOCUMENT == <<"w", "o", "r", "d", "/", "_", "r", "e", "l", "s", "/", "d", "o", "c", "u", "m", "e", "n", "t", ".", "x", "m", "l", ".", "r", "e", "l", "s">>

RELS_CUSTOMXML == <<"c", "u", "s", "t", "o", "m", "X", "m", "l", "/", "i", "t", "e", "m", "1", ".", "x", "m", "l", ".", "r", "e", "l", "s">>

RELS_UP == <<".", ".", "/", "_", "r", "e", "l", "s", "/", "b", ".", "r", "e", "l", "s">>

RECURSIVE StringsOver(_, _)
StringsOver(alphabet, n) ==
    IF n = 0 THEN {<<>>}
    ELSE LET shorter == StringsOver(alphabet, n - 1)
         IN  shorter \cup {Append(s, c) : s \in shorter, c \in alphabet}

OwnerPaths == StringsOver({"b", ".", "/"}, MaxPathLen)

RawTargets == StringsOver({"a", ".", "/"}, MaxPathLen)

\* the calls of relationships.test.ts and of the documented path algebra
ExampleCalls ==
    { <<WORD_DOCUMENT, MEDIA_IMAGE>>,
      <<WORD_DOCUMENT, ABS_CUSTOMXML>>,
      <<WORD_HEADER1, UP_MEDIA_IMAGE2>>,
      <<A_XML, UP_UP_X>> }

ResolveCalls ==
    { [fn |-> "resolveRelationshipTarget", sourcePath |-> c[1], target |-> c[2],
       relationships |-> <<>>] : c \in (OwnerPaths \X RawTargets) \cup ExampleCalls }

RelsPaths ==
    { RELS_ROOT, RELS_WORD_DOCUMENT, RELS_CUSTOMXML, RELS_UP }

TargetModes ==
    { Undefined,
      <<"E", "x", "t", "e", "r", "n", "a", "l">>,
      <<"e", "x", "t", "e", "r", "n", "a", "l">>,
      <<"E", "X", "T", "E", "R", "N", "A", "L">>,
      <<"I", "n", "t", "e", "r", "n", "a", "l">> }

RId1 == <<"r", "I", "d", "1">>

Relationship(id, target, targetMode, source) ==
    [id |-> id, target |-> target, type |-> Undefined, targetMode |-> targetMode,
     source |-> source]

\* one .rels part holding one relationship
BuildCalls ==
    { [fn |-> "buildRelationshipsBySource", sourcePath |-> <<>>, target |-> <<>>,
       relationships |-> << <<p, << <<RId1, Relationship(RId1, t, m, p)>> >> >> >>] :
         p \in RelsPaths, t \in RawTargets, m \in TargetModes }

\* the segments a .rels path is built from
PathSegments == { <<"w">>, RelsName, <<"d">> \o RelsSuffix, RelsSuffix }

RECURSIVE SegmentLists(_)
SegmentLists(n) ==
    IF n = 0 THEN {}
    ELSE SegmentLists(n - 1) \cup
         { Append(l, g) : l \in SegmentLists(n - 1) \cup {<<>>}, g \in PathSegments }

RelsSegmentLists == SegmentLists(MaxSegs)

SourcePathCalls ==
    { [fn |-> "sourcePathFromRelationshipsPath", path |-> p] :
        p \in { join(l, Slash) : l \in RelsSegmentLists } \cup RelsPaths }

RId2 == <<"r", "I", "d", "2">>

\* an element from a set of <<name, value>> pairs with distinct names
Element(pairs) ==
    [name \in { p[1] : p \in pairs } |-> (CHOOSE p \in pairs : p[1] = name)[2]]

TypeValue == <<"t">>

\* elements spelled in the exact OPC case: Id and Target absent, empty or
\* present, with and without Type and TargetMode
ExactCaseElements ==
    { Element(i \cup t \cup o) :
        i \in { {}, {<<"Id", <<>>>>}, {<<"Id", RId1>>}, {<<"Id", RId2>>} },
        t \in { {}, {<<"Target", <<>>>>}, {<<"Target", <<"a">>>>}, {<<"Target", <<"b">>>>} },
        o \in { {}, {<<"Type", TypeValue>>, <<"TargetMode", External>>} } }

\* one element in every spelling of each attribute name
SpelledElements ==
    { Element(i \cup t \cup y \cup m) :
        i \in { {}, {<<"Id", RId1>>}, {<<"id", RId1>>} },
        t \in { {}, {<<"Target", <<"a">>>>}, {<<"target", <<"a">>>>} },
        y \in { {}, {<<"Type", TypeValue>>}, {<<"type", TypeValue>>} },
        m \in { {}, {<<"TargetMode", External>>}, {<<"targetMode", External>>},
                {<<"targetmode", External>>} } }

RECURSIVE ElementLists(_)
ElementLists(n) ==
    IF n = 0 THEN {<<>>}
    ELSE ElementLists(n - 1) \cup
         { Append(l, e) : l \in ElementLists(n - 1), e \in ExactCaseElements }

Documents == ElementLists(MaxElems) \cup { <<e>> : e \in SpelledElements }

ParseCalls ==
    { [fn |-> "parseRelationships", xml |-> [type |-> "Document", elements |-> d],
       source |-> RELS_WORD_DOCUMENT] : d \in Documents }
    \cup
    { [fn |-> "parseRelationships",
       xml |-> [type |-> "string", wellFormed |-> w, elements |-> <<e>>],
       source |-> RELS_ROOT] : w \in BOOLEAN, e \in SpelledElements }

\* a .rels part beside its owner: it derives the owner word/document.xml too
WORD_DOCUMENT_RELS == WORD_DOCUMENT \o RelsSuffix

\* the relationships of one .rels part: one or two ids, in either order
RelationshipMaps(source) ==
    { << <<i, Relationship(i, t, Undefined, source)>> >> :
        i \in {RId1, RId2}, t \in {<<"a">>, <<"b">>} }
    \cup
    { << <<ids[1], Relationship(ids[1], t, Undefined, source)>>,
         <<ids[2], Relationship(ids[2], u, Undefined, source)>> >> :
        ids \in {<<RId1, RId2>>, <<RId2, RId1>>},
        t \in {<<"a">>, <<"b">>}, u \in {<<"a">>, <<"b">>} }

GroupedPaths == { RELS_ROOT, RELS_WORD_DOCUMENT, WORD_DOCUMENT_RELS }

\* two .rels parts in the order they were parsed
GroupingCalls ==
    UNION { { [fn |-> "buildRelationshipsBySource", sourcePath |-> <<>>, target |-> <<>>,
               relationships |-> << <<c[1], m>>, <<c[2], n>> >>] :
                 m \in RelationshipMaps(c[1]), n \in RelationshipMaps(c[2]) } :
            c \in { d \in GroupedPaths \X GroupedPaths : d[1] # d[2] } }

InitRel ==
    /\ forwardMap = EmptyMap
    /\ reverseMap = EmptyMap
    /\ ret = Void("createReferenceMap")
    /\ added = <<>>
    /\ cleared = FALSE
    /\ stale = {}
    /\ loads = 0
    /\ relCall \in ResolveCalls \cup BuildCalls \cup GroupingCalls \cup SourcePathCalls
                     \cup ParseCalls
    /\ relResult = Pending
    /\ archive = NoArchive
    /\ ld = Idle
    /\ promise = NoPromise
    /\ activeModel = NoModel
    /\ state = NoTabs
    /\ listeners = {}
    /\ tabCall = NoTabCall
    /\ heap = <<>>
    /\ buckets = NoBuckets
    /\ handedOut = {}

NextRel ==
    \/ CallResolve
    \/ CallBuild
    \/ CallSourcePath
    \/ CallParse

SpecRel == InitRel /\ [][NextRel]_vars

(***************************************************************************)
(* Inputs of the package loader specification                              *)
(***************************************************************************)
Plain(size, text) == [size |-> size, text |-> text, inflated |-> <<>>]

Deflated(size, payload) == [size |-> size, text |-> NoText, inflated |-> <<payload>>]

XmlText(elements) == [wellFormed |-> TRUE, elements |-> elements]

Record(name, compressionMethod, data, uncompressedSize) ==
    [signature |-> CENTRAL_DIRECTORY_SIGNATURE, localSignature |-> LOCAL_FILE_HEADER_SIGNATURE,
     name |-> name, compressionMethod |-> compressionMethod, compressedSize |-> data.size,
     uncompressedSize |-> uncompressedSize, date |-> "1980-01-01", data |-> data]

\* _rels/.rels, deflated: rId1 targets word/document.xml
ROOT_RELS ==
    Record(RELS_ROOT, 8,
           Deflated(2, Plain(3, XmlText(<<Element({<<"Id", RId1>>,
                                                   <<"Target", WORD_DOCUMENT>>})>>))), 3)

DOCUMENT == Record(WORD_DOCUMENT, 0, Plain(2, XmlText(<<>>)), 2)

IMAGE == Record(<<"m", ".", "b", "i", "n">>, 8, Deflated(1, Plain(2, NoText)), 2)

\* a directory entry that declares a compression method nobody implements
FOLDER == Record(<<"w", "/">>, 99, Plain(0, NoText), 0)

\* an XML part that is not well-formed
BROKEN_XML == Record(<<"s", ".", "x", "m", "l">>, 0, Plain(1, NoText), 1)

UNSUPPORTED == Record(<<"x", ".", "b", "i", "n">>, 99, Plain(1, NoText), 1)

CORRUPT == [DOCUMENT EXCEPT !.signature = 0]

NO_LOCAL_HEADER == [DOCUMENT EXCEPT !.localSignature = 0]

Records ==
    { ROOT_RELS, DOCUMENT, IMAGE, FOLDER, BROKEN_XML, UNSUPPORTED, CORRUPT, NO_LOCAL_HEADER }

RECURSIVE RecordLists(_)
RecordLists(n) ==
    IF n = 0 THEN {<<>>}
    ELSE RecordLists(n - 1) \cup { Append(l, r) : l \in RecordLists(n - 1), r \in Records }

\* buffers of 100 bytes: the End-Of-Central-Directory signature at offset
\* 78, at offset 90 (less than 22 bytes before the end), or nowhere
Archives ==
    { [length |-> 100, signatures |-> {78}, records |-> l] : l \in RecordLists(MaxRecords) }
    \cup
    { [length |-> 100, signatures |-> g, records |-> <<>>] : g \in { {}, {90} } }

NextLoad ==
    \/ \E input \in Archives : StartLoad(input)
    \/ LocateDirectory
    \/ ParseRecord
    \/ Decompress
    \/ LoadAsyncReturn
    \/ ReadEntry
    \/ IndexEntry
    \/ ReturnModel
    \/ Settle

SpecLoad == Init /\ [][NextLoad]_vars

(***************************************************************************)
(* Inputs of the container reader specification: one load of one buffer    *)
(***************************************************************************)
\* stored: one byte in the buffer, two declared
STORED_SHORT == Record(<<"n", ".", "b", "i", "n">>, 0, Plain(1, NoText), 2)

\* deflated: inflates to three bytes, two declared
DEFLATED_LONG == Record(<<"o", ".", "b", "i", "n">>, 8, Deflated(1, Plain(3, NoText)), 2)

\* a directory entry that declares Deflate, sizes and data
SIZED_FOLDER == Record(<<"w", "/">>, 8, Deflated(2, Plain(3, NoText)), 3)

\* a second record named word/document.xml, with other bytes
DOCUMENT_AGAIN == Record(WORD_DOCUMENT, 0, Plain(4, XmlText(<<>>)), 4)

ZipRecords == Records \cup { STORED_SHORT, DEFLATED_LONG, SIZED_FOLDER, DOCUMENT_AGAIN }

RECURSIVE ZipRecordLists(_)
ZipRecordLists(n) ==
    IF n = 0 THEN {<<>>}
    ELSE ZipRecordLists(n - 1) \cup
         { Append(l, r) : l \in ZipRecordLists(n - 1), r \in ZipRecords }

ZipArchives ==
    { [length |-> 100, signatures |-> {78}, records |-> l] : l \in ZipRecordLists(MaxRecords) }

\* loadDocxPackage(input) has been called and awaits JSZip.loadAsync(input)
InitZip ==
    /\ forwardMap = EmptyMap
    /\ reverseMap = EmptyMap
    /\ ret = Void("createReferenceMap")
    /\ added = <<>>
    /\ cleared = FALSE
    /\ stale = {}
    /\ loads = 0
    /\ relCall = NoCall
    /\ relResult = Pending
    /\ archive \in ZipArchives
    /\ ld = [Idle EXCEPT !.pc = "parseEntries"]
    /\ promise = PendingPromise
    /\ activeModel = NoModel
    /\ state = NoTabs
    /\ listeners = {}
    /\ tabCall = NoTabCall
    /\ heap = <<>>
    /\ buckets = NoBuckets
    /\ handedOut = {}

NextZip ==
    \/ LocateDirectory
    \/ ParseRecord
    \/ Decompress
    \/ LoadAsyncReturn
    \/ ReadEntry
    \/ IndexEntry
    \/ ReturnModel

SpecZip == InitZip /\ [][NextZip]_vars

(***************************************************************************)
(* Inputs of the End-Of-Central-Directory search                           *)
(***************************************************************************)
BufferLengths == { 0, 21, 22, 100, 65536, 65558, 65559, 70000 }

\* where a signature may start in a buffer of n bytes: at its start, right
\* at and after the last offset that leaves room for the record, and
\* around the far end of the search
SignatureOffsets(n) ==
    { i \in { 0, n - 4, n - 21, n - 22, n - 65535, n - 65536, n - 65537,
              n - 22 - 65535, n - 22 - 65536, n - 22 - 65537 } : i >= 0 /\ i <= n - 4 }

\* two occurrences of the four signature bytes do not overlap
SignatureSets(n) ==
    { g \in SUBSET SignatureOffsets(n) :
        /\ Cardinality(g) <= MaxSignatures
        /\ \A i \in g : \A j \in g : i < j => j - i >= 4 }

FindCalls ==
    UNION { { [fn |-> "findEndOfCentralDirectory",
               data |-> [length |-> n, signatures |-> g, records |-> <<>>]] :
                g \in SignatureSets(n) } : n \in BufferLengths }

InitFind ==
    /\ forwardMap = EmptyMap
    /\ reverseMap = EmptyMap
    /\ ret = Void("createReferenceMap")
    /\ added = <<>>
    /\ cleared = FALSE
    /\ stale = {}
    /\ loads = 0
    /\ relCall \in FindCalls
    /\ relResult = Pending
    /\ archive = NoArchive
    /\ ld = Idle
    /\ promise = NoPromise
    /\ activeModel = NoModel
    /\ state = NoTabs
    /\ listeners = {}
    /\ tabCall = NoTabCall
    /\ heap = <<>>
    /\ buckets = NoBuckets
    /\ handedOut = {}

NextFind == CallFind

SpecFind == InitFind /\ [][NextFind]_vars

(***************************************************************************)
(* Inputs of the tab store specification                                   *)
(***************************************************************************)
TabPaths == { <<"a">>, <<"b">>, <<"c">> }

FileEventDetail(path) == [path |-> path, name |-> path, kind |-> "xml"]

Contents == { Undefined, <<"x">> }

ScrollTargets == { <<>>, << [attribute |-> <<"i", "d">>, value |-> <<"1">>] >> }

Listeners == { "tabView" }

InitTabs ==
    /\ forwardMap = EmptyMap
    /\ reverseMap = EmptyMap
    /\ ret = Void("createReferenceMap")
    /\ added = <<>>
    /\ cleared = FALSE
    /\ stale = {}
    /\ loads = 0
    /\ relCall = NoCall
    /\ relResult = Pending
    /\ archive = NoArchive
    /\ ld = Idle
    /\ promise = NoPromise
    /\ activeModel = NoModel
    /\ state = NoTabs
    /\ listeners = {}
    /\ tabCall = NoTabCall
    /\ heap = <<>>
    /\ buckets = NoBuckets
    /\ handedOut = {}

NextTabs ==
    \/ \E p \in TabPaths, c \in Contents, s \in ScrollTargets :
          open(FileEventDetail(p), c, s) /\ UNCHANGED <<refVars, relVars, zipVars, heapVars>>
    \/ \E p \in TabPaths : close(p) /\ UNCHANGED <<refVars, relVars, zipVars, heapVars>>
    \/ closeAll /\ UNCHANGED <<refVars, relVars, zipVars, heapVars>>
    \/ \E p \in TabPaths, s \in ScrollTargets :
          focus(p, s) /\ UNCHANGED <<refVars, relVars, zipVars, heapVars>>
    \/ \E l \in Listeners : subscribe(l) /\ UNCHANGED <<refVars, relVars, zipVars, heapVars>>
    \/ \E l \in Listeners : unsubscribe(l) /\ UNCHANGED <<refVars, relVars, zipVars, heapVars>>
    \/ \E p \in TabPaths, c \in Contents :
          FileOpened(FileEventDetail(p), c) /\ UNCHANGED <<refVars, relVars, zipVars, heapVars>>

SpecTabs == InitTabs /\ [][NextTabs]_vars

(***************************************************************************)
(* Inputs of the XML viewer specification: one attribute of one element    *)
(* of word/document.xml is rendered                                        *)
(***************************************************************************)
AttributeNames == { <<"r", ":", "i", "d">>, <<"w", ":", "i", "d">>, <<"w", ":", "a", "n", "c", "h", "o", "r">>, <<"r", ":", "e", "m", "b", "e", "d">> }

AttributeValues == { RId1, <<"0">>, <<"b", "m">> }

TagNames == { <<"w", ":", "c", "o", "m", "m", "e", "n", "t", "R", "e", "f", "e", "r", "e", "n", "c", "e">>, <<"w", ":", "f", "o", "o", "t", "n", "o", "t", "e", "R", "e", "f", "e", "r", "e", "n", "c", "e">>, <<"w", ":", "e", "n", "d", "n", "o", "t", "e", "R", "e", "f", "e", "r", "e", "n", "c", "e">>, <<"w", ":", "h", "y", "p", "e", "r", "l", "i", "n", "k">>, <<"a", ":", "b", "l", "i", "p">> }

RelationshipTypes == { <<"r", "e", "l", "/", "c", "o", "m", "m", "e", "n", "t", "s">>, <<"r", "e", "l", "/", "f", "o", "o", "t", "n", "o", "t", "e", "s">>, <<"r", "e", "l", "/", "e", "n", "d", "n", "o", "t", "e", "s">>, <<"r", "e", "l", "/", "i", "m", "a", "g", "e">> }

INTERNAL_TARGET == <<"c", ".", "x", "m", "l">>

EXTERNAL_TARGET == <<"h", ":", "c">>

\* the one relationship of word/document.xml as parseRelationships returns it
TypedRelationship(type, targetMode) ==
    [id |-> RId1,
     target |-> IF targetMode = Undefined THEN INTERNAL_TARGET ELSE EXTERNAL_TARGET,
     type |-> type, targetMode |-> targetMode, source |-> RELS_WORD_DOCUMENT]

ViewTargetModes == { Undefined, <<"E", "x", "t", "e", "r", "n", "a", "l">>, <<"E", "X", "T", "E", "R", "N", "A", "L">> }

\* what packageModel.relationshipsBySource holds, or nothing
RelationshipIndexes ==
    { <<>> } \cup
    { << buildRelationshipsBySource(
            << <<RELS_WORD_DOCUMENT, << <<RId1, TypedRelationship(t, m)>> >> >> >>) >> :
        t \in RelationshipTypes, m \in ViewTargetModes }

ViewCalls ==
    { [fn |-> "createAttributeTokens",
       attribute |-> [name |-> n, value |-> v],
       element |-> [tagName |-> g],
       context |-> [sourcePath |-> p, relationshipsBySource |-> r, referenceMap |-> h]] :
        n \in AttributeNames, v \in AttributeValues, g \in TagNames,
        p \in { WORD_DOCUMENT, Undefined }, r \in RelationshipIndexes, h \in BOOLEAN }

InitView ==
    /\ forwardMap = EmptyMap
    /\ reverseMap = EmptyMap
    /\ ret = Void("createReferenceMap")
    /\ added = <<>>
    /\ cleared = FALSE
    /\ stale = {}
    /\ loads = 0
    /\ relCall \in ViewCalls
    /\ relResult = Pending
    /\ archive = NoArchive
    /\ ld = Idle
    /\ promise = NoPromise
    /\ activeModel = NoModel
    /\ state = NoTabs
    /\ listeners = {}
    /\ tabCall = NoTabCall
    /\ heap = <<>>
    /\ buckets = NoBuckets
    /\ handedOut = {}

NextView == createAttributeTokens

SpecView == InitView /\ [][NextView]_vars

(***************************************************************************)
(* Properties of the Reference Map                                         *)
(***************************************************************************)
SourceKeyOf(link) == createReferenceKey(link.sourcePath, link.sourceAttribute, link.sourceValue)

TargetKeyOf(link) == createReferenceKey(link.targetPath, link.targetAttribute, link.targetValue)

SameSourceTriple(src, link) ==
    /\ src.sourcePath = link.sourcePath
    /\ src.sourceAttribute = link.sourceAttribute
    /\ src.sourceValue = link.sourceValue

Contains(seq, P(_)) == \E i \in 1..Len(seq) : P(seq[i])

LookupOps == {"getReferencesFrom", "getReferencesTo"}

\* C1: every link added since the last clear() is returned by a forward
\* lookup from its source triple (as its target triple) and by a reverse
\* lookup from its target triple (as its source triple), whatever other
\* links were added before or after it.
C1_Symmetry ==
    \A i \in 1..Len(added) :
        LET L == added[i]
        IN  /\ Contains(getReferencesFrom(L.sourcePath, L.sourceAttribute, L.sourceValue),
                        LAMBDA t : t = ReferenceTarget(L))
            /\ Contains(getReferencesTo(L.targetPath, L.targetAttribute, L.targetValue),
                        LAMBDA src : SameSourceTriple(src, L))

\* two links under different keys, the first one looked up after the second was added
C1_Witness ==
    /\ Len(added) = 2
    /\ SourceKeyOf(added[1]) # SourceKeyOf(added[2])
    /\ TargetKeyOf(added[1]) # TargetKeyOf(added[2])
    /\ ret.op = "getReferencesTo"
    /\ ret.args = <<added[1].targetPath, added[1].targetAttribute, added[1].targetValue>>
    /\ Len(ret.value) = 1

\* C2: a link registered with attribute name A is returned by
\* getReferencesFrom / getReferencesTo for every attribute name that equals A
\* ignoring letter case, with the same path and value.
C2_AttributeCaseIgnored ==
    \A i \in 1..Len(added) : \A t \in Triples :
        LET L == added[i]
        IN  /\ ( /\ t[1] = L.sourcePath
                 /\ toLowerCase(t[2]) = toLowerCase(L.sourceAttribute)
                 /\ t[3] = L.sourceValue )
               => Contains(getReferencesFrom(t[1], t[2], t[3]),
                           LAMBDA e : e = ReferenceTarget(L))
            /\ ( /\ t[1] = L.targetPath
                 /\ toLowerCase(t[2]) = toLowerCase(L.targetAttribute)
                 /\ t[3] = L.targetValue )
               => Contains(getReferencesTo(t[1], t[2], t[3]),
                           LAMBDA e : SameSourceTriple(e, L))

\* registered as "W", found when queried as "w"
C2_Witness ==
    /\ Len(added) >= 1
    /\ added[1].sourceAttribute = <<"W">>
    /\ ret.op = "getReferencesFrom"
    /\ ret.args = <<added[1].sourcePath, <<"w">>, added[1].sourceValue>>
    /\ Len(ret.value) >= 1

\* C3: a lookup returns an entry only if some registered link has exactly
\* the queried path, exactly the queried value and the queried attribute up
\* to letter case -- for all strings, also those containing "::".
C3_ExactPathAndValue ==
    \A t \in Triples :
        /\ \A i \in 1..Len(getReferencesFrom(t[1], t[2], t[3])) :
              \E j \in 1..Len(added) :
                  /\ added[j].sourcePath = t[1]
                  /\ toLowerCase(added[j].sourceAttribute) = toLowerCase(t[2])
                  /\ added[j].sourceValue = t[3]
                  /\ ReferenceTarget(added[j]) = getReferencesFrom(t[1], t[2], t[3])[i]
        /\ \A i \in 1..Len(getReferencesTo(t[1], t[2], t[3])) :
              \E j \in 1..Len(added) :
                  /\ added[j].targetPath = t[1]
                  /\ toLowerCase(added[j].targetAttribute) = toLowerCase(t[2])
                  /\ added[j].targetValue = t[3]
                  /\ ReferenceSource(added[j]) = getReferencesTo(t[1], t[2], t[3])[i]

\* the links of `added` registered under a source key / a target key, in order
AddedFrom(key) == SelectSeq(added, LAMBDA L : SourceKeyOf(L) = key)

AddedTo(key) == SelectSeq(added, LAMBDA L : TargetKeyOf(L) = key)

\* C4: for every key, getReferencesFrom returns exactly the targets of the
\* links added under that source key, one per addReference call and in the
\* order of the calls; getReferencesTo likewise for the sources of the links
\* added under that target key.
C4_AppendNeverReplace ==
    \A t \in Triples :
        LET key == createReferenceKey(t[1], t[2], t[3])
        IN  /\ getReferencesFrom(t[1], t[2], t[3])
                 = [i \in 1..Len(AddedFrom(key)) |-> ReferenceTarget(AddedFrom(key)[i])]
            /\ getReferencesTo(t[1], t[2], t[3])
                 = [i \in 1..Len(AddedTo(key)) |-> ReferenceSource(AddedTo(key)[i])]

\* two different links under one source key, returned in insertion order
C4_Witness ==
    /\ Len(added) = 2
    /\ SourceKeyOf(added[1]) = SourceKeyOf(added[2])
    /\ ReferenceTarget(added[1]) # ReferenceTarget(added[2])
    /\ ret.op = "getReferencesFrom"
    /\ ret.value = <<ReferenceTarget(added[1]), ReferenceTarget(added[2])>>

\* C5: a lookup step leaves the forward and the reverse index unchanged, and
\* a lookup under a triple with nothing registered returns the empty sequence.
C5_LookupsPure ==
    [][ ret'.op \in LookupOps =>
          /\ forwardMap' = forwardMap
          /\ reverseMap' = reverseMap
          /\ ( ret'.op = "getReferencesFrom"
               /\ ~ \E i \in 1..Len(added) :
                      SourceKeyOf(added[i]) = createReferenceKey(ret'.args[1], ret'.args[2], ret'.args[3]) )
             => ret'.value = <<>>
          /\ ( ret'.op = "getReferencesTo"
               /\ ~ \E i \in 1..Len(added) :
                      TargetKeyOf(added[i]) = createReferenceKey(ret'.args[1], ret'.args[2], ret'.args[3]) )
             => ret'.value = <<>> ]_vars

\* a miss on a map that is not empty
C5_Witness ==
    /\ Len(added) >= 1
    /\ ret.op = "getReferencesFrom"
    /\ ret.value = <<>>
    /\ forwardMap # EmptyMap

\* C6: right after clear() every lookup is empty, and links added after a
\* clear() are returned by lookups again.
C6_ClearDropsBoth ==
    /\ ret.op = "clear" =>
          /\ forwardMap = EmptyMap
          /\ reverseMap = EmptyMap
          /\ \A t \in Triples :
                /\ getReferencesFrom(t[1], t[2], t[3]) = <<>>
                /\ getReferencesTo(t[1], t[2], t[3]) = <<>>
    /\ cleared =>
          \A i \in 1..Len(added) :
              /\ Len(getReferencesFrom(added[i].sourcePath, added[i].sourceAttribute,
                                       added[i].sourceValue)) >= 1
              /\ Len(getReferencesTo(added[i].targetPath, added[i].targetAttribute,
                                     added[i].targetValue)) >= 1

\* a clear() that dropped links, then a new link, found by a reverse lookup
C6_Witness ==
    /\ cleared
    /\ Len(added) = 1
    /\ ret.op = "getReferencesTo"
    /\ Len(ret.value) = 1

\* C7: after a package replacement, whatever a lookup returns was registered
\* while the current package was active: no entry of either index stems
\* from a link of an earlier package.
C7_ScopedToPackage ==
    \A t \in Triples :
        LET key == createReferenceKey(t[1], t[2], t[3])
        IN  /\ \A i \in 1..Len(getReferencesFrom(t[1], t[2], t[3])) :
                  \E j \in 1..Len(added) :
                      /\ SourceKeyOf(added[j]) = key
                      /\ ReferenceTarget(added[j]) = getReferencesFrom(t[1], t[2], t[3])[i]
            /\ \A i \in 1..Len(getReferencesTo(t[1], t[2], t[3])) :
                  \E j \in 1..Len(added) :
                      /\ TargetKeyOf(added[j]) = key
                      /\ ReferenceSource(added[j]) = getReferencesTo(t[1], t[2], t[3])[i]

\* a link of the previous package is looked up in the new one and not found,
\* while the new package has links of its own
C7_Witness ==
    /\ loads >= 1
    /\ Len(added) >= 1
    /\ ret.op = "getReferencesTo"
    /\ ret.value = <<>>
    /\ \E L \in stale :
          /\ ret.args = <<L.targetPath, L.targetAttribute, L.targetValue>>
          /\ \A i \in 1..Len(added) : TargetKeyOf(added[i]) # TargetKeyOf(L)

\* C27: an array that getReferencesFrom or getReferencesTo has returned
\* keeps the content it had when it was returned, whatever addReference
\* and clear calls follow; and a step changes the forward index exactly
\* when it changes the reverse index.
C27_SnapshotConsistent ==
    /\ [](\A h \in handedOut : heap[h.ref] = h.value)
    /\ [][(forwardMap' # forwardMap) <=> (reverseMap' # reverseMap)]_vars

\* a caller holds the one-element bucket of a source key, and that key's
\* bucket is by now another array, one element longer
C27_Witness ==
    \E h \in handedOut :
        /\ Len(h.value) = 1
        /\ \E key \in DOMAIN buckets.forward :
              /\ buckets.forward[key] # h.ref
              /\ Len(heap[buckets.forward[key]]) = 2
              /\ SubSeq(heap[buckets.forward[key]], 1, 1) = h.value
              /\ forwardMap[key] = heap[buckets.forward[key]]

\* the links registered under a source key / a target key, as a set: it
\* does not depend on the order of registration
LinksFrom(key) == { L \in Range(added) : SourceKeyOf(L) = key }

LinksTo(key) == { L \in Range(added) : TargetKeyOf(L) = key }

\* the entries of a bucket stand in the order their links were registered
InInsertionOrder(bucket, Entry(_)) ==
    \A i \in 1..Len(bucket) : \A j \in (i + 1)..Len(bucket) :
        \E a \in 1..Len(added) : \E b \in (a + 1)..Len(added) :
            Entry(added[a]) = bucket[i] /\ Entry(added[b]) = bucket[j]

\* C28: for every triple, the set of targets getReferencesFrom returns and
\* the set of sources getReferencesTo returns are determined by the set of
\* links registered, not by the order they were registered in; only the
\* order of the entries inside a bucket follows the order of registration.
C28_OrderIndependent ==
    \A t \in Triples :
        LET key == createReferenceKey(t[1], t[2], t[3])
        IN  /\ Range(getReferencesFrom(t[1], t[2], t[3]))
                  = { ReferenceTarget(L) : L \in LinksFrom(key) }
            /\ Range(getReferencesTo(t[1], t[2], t[3]))
                  = { ReferenceSource(L) : L \in LinksTo(key) }
            /\ InInsertionOrder(getReferencesFrom(t[1], t[2], t[3]), ReferenceTarget)
            /\ InInsertionOrder(getReferencesTo(t[1], t[2], t[3]), ReferenceSource)

\* the link from T1 to T2 was registered before the link from T1 to T1 (the
\* other order is reachable as well): the lookup from T1 returns both
C28_Witness ==
    /\ added = <<MakeLink(T1, T2, Undefined), MakeLink(T1, T1, Undefined)>>
    /\ ret.op = "getReferencesFrom"
    /\ ret.args = T1
    /\ Range(ret.value) = { ReferenceTarget(MakeLink(T1, T2, Undefined)),
                            ReferenceTarget(MakeLink(T1, T1, Undefined)) }

RECURSIVE TotalEntries(_)
\* the number of entries over all buckets of a map
TotalEntries(map) ==
    IF DOMAIN map = {} THEN 0
    ELSE LET key == CHOOSE k \in DOMAIN map : TRUE
         IN  Len(map[key]) + TotalEntries([k \in (DOMAIN map) \ {key} |-> map[k]])

\* C29: in every state the forward buckets hold as many targets in total
\* as the reverse buckets hold sources, and as many as addReference was
\* called since creation or the last clear(); a link equal to one already
\* registered adds one more entry to each index.
C29_SizesMirror ==
    /\ TotalEntries(forwardMap) = TotalEntries(reverseMap)
    /\ TotalEntries(forwardMap) = Len(added)

\* the same link registered twice: two entries in its forward bucket and
\* two in its reverse bucket
C29_Witness ==
    /\ added = <<MakeLink(T1, T1, Undefined), MakeLink(T1, T1, Undefined)>>
    /\ Len(getReferencesFrom(T1[1], T1[2], T1[3])) = 2
    /\ Len(getReferencesTo(T1[1], T1[2], T1[3])) = 2

(***************************************************************************)
(* Properties of the relationship resolver                                 *)
(***************************************************************************)
Resolved == relCall.fn = "resolveRelationshipTarget" /\ relResult.done

Built == relCall.fn = "buildRelationshipsBySource" /\ relResult.done

\* every IndexedRelationship of the index returned by buildRelationshipsBySource
AllIndexed ==
    UNION { { relResult.value[i][2][j][2] : j \in 1..Len(relResult.value[i][2]) } :
            i \in 1..Len(relResult.value) }

EqualsIgnoringCase(a, b) ==
    /\ Len(a) = Len(b)
    /\ \A i \in 1..Len(a) : toLowerCaseChar(a[i]) = toLowerCaseChar(b[i])

ExternalMode(r) == EqualsIgnoringCase(r.targetMode, <<"E", "x", "t", "e", "r", "n", "a", "l">>)

\* The path algebra as documented. Segments are read from the right: a ".."
\* cancels the nearest kept segment on its left, and a ".." with nothing on
\* its left to cancel is ignored.
RECURSIVE RefKeep(_, _)
RefKeep(segs, skip) ==
    IF segs = <<>> THEN <<>>
    ELSE LET last == segs[Len(segs)]
             front == SubSeq(segs, 1, Len(segs) - 1)
         IN  IF last = <<>> \/ last = Dot THEN RefKeep(front, skip)
             ELSE IF last = DotDot THEN RefKeep(front, skip + 1)
             ELSE IF skip > 0 THEN RefKeep(front, skip - 1)
             ELSE Append(RefKeep(front, 0), last)

RefNormalize(path) == join(RefKeep(split(path, Slash), 0), Slash)

RefFolder(owner) ==
    IF LastIndexOf(owner, Slash) = 0 THEN <<>>
    ELSE SubSeq(owner, 1, LastIndexOf(owner, Slash) - 1)

RefJoin(folder, target) ==
    IF folder = <<>> THEN target ELSE folder \o <<Slash>> \o target

RefResolve(owner, target) ==
    IF target[1] = Slash THEN RefNormalize(Tail(target))
    ELSE RefNormalize(RefJoin(RefFolder(owner), target))

\* C8: for every owner path and every non-empty target,
\* resolveRelationshipTarget returns what the documented path algebra
\* gives (root-relative for a leading "/", else relative to the owner's
\* folder, then normalized), including the documented examples.
C8_PathAlgebra ==
    Resolved =>
        /\ relCall.target # <<>> => relResult.value = RefResolve(relCall.sourcePath, relCall.target)
        /\ (relCall.sourcePath = WORD_DOCUMENT /\ relCall.target = MEDIA_IMAGE)
              => relResult.value = WORD_MEDIA_IMAGE
        /\ (relCall.sourcePath = WORD_HEADER1 /\ relCall.target = UP_MEDIA_IMAGE2)
              => relResult.value = MEDIA_IMAGE2
        /\ (relCall.sourcePath = A_XML /\ relCall.target = UP_UP_X)
              => relResult.value = X

\* "a.xml" + "../../x" gives "x": both ".." find nothing to remove
C8_Witness ==
    /\ Resolved
    /\ relCall.sourcePath = A_XML
    /\ relCall.target = UP_UP_X
    /\ relResult.value = X

\* s, read as "/"-separated segments, has no ".", no "..", no empty segment
\* and no leading slash (the empty path has no segment at all)
IsNormalized(s) ==
    /\ s # <<>> => (s[1] # Slash /\ s[Len(s)] # Slash)
    /\ \A i \in 1..(Len(s) - 1) : ~(s[i] = Slash /\ s[i + 1] = Slash)
    /\ \A i \in 1..Len(s) : \A j \in i..Len(s) :
          ( /\ (i = 1 \/ s[i - 1] = Slash)
            /\ (j = Len(s) \/ s[j + 1] = Slash)
            /\ \A k \in i..j : s[k] # Slash )
          => (SubSeq(s, i, j) # Dot /\ SubSeq(s, i, j) # DotDot)

\* C9: every IndexedRelationship built for a relationship that is not
\* External has a normalized resolvedTarget, whatever the raw target and the
\* owner path.
C9_ResolvedTargetNormalized ==
    Built => \A r \in AllIndexed : ~ExternalMode(r) => IsNormalized(r.resolvedTarget)

\* an internal target with a ".." segment under word/document.xml
C9_Witness ==
    /\ Built
    /\ \E r \in AllIndexed :
          /\ r.targetMode = Undefined
          /\ r.target = <<".", ".", "/", "a">>
          /\ r.resolvedTarget = <<"a">>
    /\ relCall.relationships[1][1] = RELS_WORD_DOCUMENT

\* C10: every IndexedRelationship built for a relationship whose targetMode
\* is "External" in any letter case keeps its raw target as resolvedTarget,
\* whatever the owner path.
C10_ExternalVerbatim ==
    Built => \A r \in AllIndexed : ExternalMode(r) => r.resolvedTarget = r.target

\* "EXTERNAL" with a target that normalization would change
C10_Witness ==
    /\ Built
    /\ \E r \in AllIndexed :
          /\ r.targetMode = <<"E", "X", "T", "E", "R", "N", "A", "L">>
          /\ r.target = <<"/", ".", ".", "/">>
          /\ r.resolvedTarget = <<"/", ".", ".", "/">>

\* the call to sourcePathFromRelationshipsPath has returned
Derived == relCall.fn = "sourcePathFromRelationshipsPath" /\ relResult.done

IsRelsFile(segment) == endsWith(segment, RelsSuffix)

\* the B of B.rels
RefBase(segs) == SubSeq(segs[Len(segs)], 1, Len(segs[Len(segs)]) - Len(RelsSuffix))

\* the segments before the last "_rels" segment, or, without one, the
\* segments before the file name
RefFolderSegments(segs) ==
    LET before == 1..(Len(segs) - 1)
        rels == { i \in before : segs[i] = RelsName }
    IN  IF rels = {} THEN SubSeq(segs, 1, Len(segs) - 1)
        ELSE SubSeq(segs, 1, (CHOOSE i \in rels : \A j \in rels : j <= i) - 1)

RefOwnerFolder(segs) == join(RefFolderSegments(segs), Slash)

\* C11: sourcePathFromRelationshipsPath maps "_rels/.rels" to the empty
\* path, a path F/_rels/B.rels to F/B with F everything before the last
\* "_rels" segment, and a path D/B.rels without a "_rels" segment to D/B
\* (B alone when there is no folder).
C11_OwnerDerivation ==
    Derived =>
        /\ relCall.path = RELS_ROOT => relResult.value = <<>>
        /\ relCall.path = RELS_WORD_DOCUMENT => relResult.value = WORD_DOCUMENT
        /\ relCall.path = RELS_CUSTOMXML => relResult.value = CUSTOMXML_ITEM1
        /\ \A segs \in RelsSegmentLists :
              ( /\ relCall.path = join(segs, Slash)
                /\ IsRelsFile(segs[Len(segs)])
                /\ RefBase(segs) # <<>> )
              => relResult.value = RefJoin(RefOwnerFolder(segs), RefBase(segs))

\* "_rels/_rels/d.rels": the folder runs up to the last "_rels" segment
C11_Witness ==
    /\ Derived
    /\ relCall.path = join(<<RelsName, RelsName, <<"d">> \o RelsSuffix>>, Slash)
    /\ relResult.value = <<"_", "r", "e", "l", "s", "/", "d">>

\* C12: the derived owner path is the folder and the base joined with "/"
\* only when both are non-empty: the base alone when the folder is empty,
\* the folder alone when the base is empty, so it never starts or ends
\* with "/".
C12_JoinOnlyNonEmpty ==
    Derived =>
        \A segs \in RelsSegmentLists :
            (relCall.path = join(segs, Slash) /\ IsRelsFile(segs[Len(segs)]))
            => /\ relResult.value =
                    IF RefOwnerFolder(segs) = <<>> THEN RefBase(segs)
                    ELSE IF RefBase(segs) = <<>> THEN RefOwnerFolder(segs)
                    ELSE RefOwnerFolder(segs) \o <<Slash>> \o RefBase(segs)
               /\ relResult.value # <<>> =>
                    (relResult.value[1] # Slash /\ relResult.value[Len(relResult.value)] # Slash)

\* the call to parseRelationships has ended
Parsed == relCall.fn = "parseRelationships" /\ relResult.done

\* the <Relationship> elements of the document handed to the call
Elements == relCall.xml.elements

ExactNames == {"Id", "Target", "Type", "TargetMode"}

LowerNames == {"id", "target", "type", "targetmode"}

\* the attribute is absent or empty
Lacks(element, name) == name \notin DOMAIN element \/ element[name] = <<>>

Optional(element, name) == IF name \in DOMAIN element THEN element[name] ELSE Undefined

\* the relationship an element spelled in the exact OPC case stands for
RefRelationship(element, source) ==
    [id |-> element["Id"], target |-> element["Target"], type |-> Optional(element, "Type"),
     targetMode |-> Optional(element, "TargetMode"), source |-> source]

WellFormedElement(element) == ~Lacks(element, "Id") /\ ~Lacks(element, "Target")

\* C13: on a document whose elements are spelled in the exact OPC case,
\* parseRelationships does not throw, omits every element that lacks Id or
\* lacks Target, and returns every other element under its own Id with its
\* target, optional type, optional targetMode and the given source (of
\* several elements with one Id, the last one).
C13_MalformedSkipped ==
    (Parsed /\ relCall.xml.type = "Document"
            /\ \A i \in 1..Len(Elements) : DOMAIN Elements[i] \subseteq ExactNames)
    => /\ ~relResult.value.threw
       /\ \A i \in 1..Len(Elements) :
             ( /\ WellFormedElement(Elements[i])
               /\ \A j \in (i + 1)..Len(Elements) :
                     WellFormedElement(Elements[j]) => Elements[j]["Id"] # Elements[i]["Id"] )
             => /\ ObjHas(relResult.value.value, Elements[i]["Id"])
                /\ ObjGet(relResult.value.value, Elements[i]["Id"])
                      = RefRelationship(Elements[i], relCall.source)
       /\ \A k \in 1..Len(relResult.value.value) :
             \E i \in 1..Len(Elements) :
                 /\ WellFormedElement(Elements[i])
                 /\ Elements[i]["Id"] = relResult.value.value[k][1]

\* an element without Target followed by a well-formed element: the
\* well-formed one is returned alone
C13_Witness ==
    /\ Parsed
    /\ relCall.xml.type = "Document"
    /\ Len(Elements) = 2
    /\ DOMAIN Elements[1] = {"Id"}
    /\ Elements[1]["Id"] = RId1
    /\ DOMAIN Elements[2] = ExactNames
    /\ WellFormedElement(Elements[2])
    /\ Elements[2]["Id"] = RId2
    /\ relResult.value = Completed(<< <<RId2, RefRelationship(Elements[2], relCall.source)>> >>)

ExactName(name) ==
    CASE name = "id" -> "Id"
      [] name = "target" -> "Target"
      [] name = "type" -> "Type"
      [] name = "targetmode" -> "TargetMode"
      [] OTHER -> name

\* the element with every attribute name in its exact OPC case
ExactSpelling(element) ==
    [name \in { ExactName(n) : n \in DOMAIN element } |->
        element[CHOOSE n \in DOMAIN element : ExactName(n) = name]]

\* C14: an element whose attribute names are written entirely in lowercase
\* (id, target, type, targetmode) parses to the same relationship as the
\* element with the names in their exact OPC case.
C14_LowercaseSameAsExact ==
    (Parsed /\ relCall.xml.type = "Document" /\ Len(Elements) = 1
            /\ DOMAIN Elements[1] \subseteq LowerNames)
    => relResult.value
         = parseRelationships([type |-> "Document", elements |-> <<ExactSpelling(Elements[1])>>],
                              relCall.source)

\* the .rels parts handed to buildRelationshipsBySource, in parse order
Parts == relCall.relationships

OwnerOfPart(k) == sourcePathFromRelationshipsPath(Parts[k][1])

\* C15: in the index built by buildRelationshipsBySource every relationship
\* of every part is present under its part's owner path and its id; it is
\* the part's own relationship unless a part parsed later derives the same
\* owner and has the same id, in which case the later one is held. So the
\* same id under different owners stays distinct, and a collision under
\* one owner keeps the last parsed and every other id of both parts.
C15_GroupingPolicy ==
    Built =>
        \A k \in 1..Len(Parts) : \A r \in 1..Len(Parts[k][2]) :
            LET relationship == Parts[k][2][r][2]
                owner == OwnerOfPart(k)
                overwritten ==
                    \E l \in (k + 1)..Len(Parts) :
                        /\ OwnerOfPart(l) = owner
                        /\ ObjHas(Parts[l][2], relationship.id)
            IN  /\ ObjHas(relResult.value, owner)
                /\ ObjHas(ObjGet(relResult.value, owner), relationship.id)
                /\ ~overwritten =>
                      LET held == ObjGet(ObjGet(relResult.value, owner), relationship.id)
                      IN  /\ held.target = relationship.target
                          /\ held.source = relationship.source

\* word/_rels/document.xml.rels {rId1 -> a, rId2 -> b} then
\* word/document.xml.rels {rId1 -> b}: one owner, rId1 from the later part,
\* rId2 from the earlier
C15_Witness ==
    /\ Built
    /\ Len(Parts) = 2
    /\ Parts[1][1] = RELS_WORD_DOCUMENT
    /\ Parts[2][1] = WORD_DOCUMENT_RELS
    /\ Len(Parts[1][2]) = 2
    /\ Len(Parts[2][2]) = 1
    /\ ObjHas(Parts[2][2], RId1)
    /\ Len(relResult.value) = 1
    /\ LET held == ObjGet(relResult.value, WORD_DOCUMENT)
       IN  /\ Len(held) = 2
           /\ ObjGet(Parts[1][2], RId1).target = <<"a">>
           /\ ObjGet(held, RId1).target = <<"b">>
           /\ ObjGet(held, RId1).source = WORD_DOCUMENT_RELS
           /\ ObjGet(held, RId2).target = <<"b">>
           /\ ObjGet(held, RId2).source = RELS_WORD_DOCUMENT

\* the running or last loadDocxPackage call has settled its promise
Settled == promise.state \in {"fulfilled", "rejected"}

\* an End-Of-Central-Directory signature with room for the 22-byte record
DirectoryLocated == \E i \in archive.signatures : i <= archive.length - 22

IsDirectory(record) == record.name # <<>> /\ record.name[Len(record.name)] = Slash

IntactHeaders(record) ==
    /\ record.signature = CENTRAL_DIRECTORY_SIGNATURE
    /\ record.localSignature = LOCAL_FILE_HEADER_SIGNATURE

Decompressible(record) ==
    \/ record.compressionMethod = 0
    \/ record.compressionMethod = 8 /\ record.data.inflated # <<>>

\* the records of the central directory
Directory == archive.records

\* the .rels parts the load has parsed, by path
LoadedRelationships == promise.value.relationships

\* C16: the model of a successful load has relationshipsBySource, and for
\* every .rels part and every relationship parsed from it the index has
\* the relationship under the part's owner path and its id, with the
\* resolved target (rId1 of _rels/.rels under "" resolves to
\* word/document.xml).
C16_IndexInPackageModel ==
    promise.state = "fulfilled" =>
        /\ "relationshipsBySource" \in DOMAIN promise.value
        /\ \A p \in 1..Len(LoadedRelationships) :
              \A r \in 1..Len(LoadedRelationships[p][2]) :
                LET owner == sourcePathFromRelationshipsPath(LoadedRelationships[p][1])
                    relationship == LoadedRelationships[p][2][r][2]
                    index == promise.value.relationshipsBySource
                IN  /\ ObjHas(index, owner)
                    /\ ObjHas(ObjGet(index, owner), relationship.id)
                    /\ ObjGet(ObjGet(index, owner), relationship.id).resolvedTarget
                          = RefResolve(owner, relationship.target)

\* C17: a settled load of a buffer without End-Of-Central-Directory
\* signature has failed with the missing-directory error; when the first
\* record that does not parse has a wrong central signature the load has
\* failed with the corrupt-directory-entry error, and when it has a wrong
\* local header signature, with the missing-local-header error; at
\* whatever index, and never with entries returned.
C17_StructuralFailuresAbort ==
    Settled =>
        /\ archive.signatures = {} =>
              promise = Rejected(Error("Invalid ZIP: could not locate end of central directory"))
        /\ DirectoryLocated =>
              \A k \in 1..Len(Directory) :
                  (\A i \in 1..(k - 1) :
                      /\ IntactHeaders(Directory[i])
                      /\ IsDirectory(Directory[i]) \/ Decompressible(Directory[i]))
                  => /\ Directory[k].signature # CENTRAL_DIRECTORY_SIGNATURE =>
                          promise = Rejected(Error("Invalid ZIP: corrupt central directory entry"))
                     /\ ( /\ Directory[k].signature = CENTRAL_DIRECTORY_SIGNATURE
                          /\ Directory[k].localSignature # LOCAL_FILE_HEADER_SIGNATURE )
                        => promise = Rejected(Error("Invalid ZIP: missing local file header"))

\* the second record lacks its local header; the first was inflated
C17_Witness ==
    /\ Directory = <<IMAGE, NO_LOCAL_HEADER>>
    /\ promise = Rejected(Error("Invalid ZIP: missing local file header"))

\* C18 as stated: when the first record that does not parse declares a
\* compression method other than 0 and 8, whether it is a file or a
\* directory, the settled load has failed with the unsupported-compression
\* error naming that method.
C18_AnyEntryUnsupportedFatal ==
    (Settled /\ DirectoryLocated) =>
        \A k \in 1..Len(Directory) :
            ( /\ \A i \in 1..(k - 1) :
                    IntactHeaders(Directory[i]) /\ Decompressible(Directory[i])
              /\ IntactHeaders(Directory[k])
              /\ Directory[k].compressionMethod \notin {0, 8} )
            => promise = Rejected(UnsupportedCompression(Directory[k].compressionMethod))

\* C18: when the first record that does not parse is a file (not a
\* directory) declaring a compression method other than 0 and 8, the
\* settled load has failed with the unsupported-compression error naming
\* that method, whatever its position; a directory entry is never
\* decompressed, whatever method it declares.
C18_UnsupportedFatal ==
    (Settled /\ DirectoryLocated) =>
        \A k \in 1..Len(Directory) :
            ( /\ \A i \in 1..(k - 1) :
                    /\ IntactHeaders(Directory[i])
                    /\ IsDirectory(Directory[i]) \/ Decompressible(Directory[i])
              /\ IntactHeaders(Directory[k])
              /\ ~IsDirectory(Directory[k])
              /\ Directory[k].compressionMethod \notin {0, 8} )
            => promise = Rejected(UnsupportedCompression(Directory[k].compressionMethod))

\* method 99 on the second record, after a directory that declares 99 too
C18_Witness ==
    /\ Directory = <<FOLDER, UNSUPPORTED>>
    /\ promise = Rejected(UnsupportedCompression(99))

\* C19: a settled load of a container whose records all parse has
\* produced a model holding every file of the directory, also when the
\* XML of a part is not well-formed.
C19_MalformedXmlNonFatal ==
    ( /\ Settled
      /\ DirectoryLocated
      /\ \A k \in 1..Len(Directory) :
            /\ IntactHeaders(Directory[k])
            /\ IsDirectory(Directory[k]) \/ Decompressible(Directory[k]) )
    => /\ promise.state = "fulfilled"
       /\ \A k \in 1..Len(Directory) :
             ~IsDirectory(Directory[k]) => ObjHas(promise.value.byPath, Directory[k].name)

\* the payload the container holds for a record
RefPayload(record) ==
    IF record.compressionMethod = 8 THEN record.data.inflated[1] ELSE record.data

RefIsXml(name) ==
    \/ endsWith(toLowerCase(name), <<".", "x", "m", "l">>)
    \/ endsWith(toLowerCase(name), RelsSuffix)

\* model holds every file of the directory, decompressed and indexed
Complete(model) ==
    /\ DirectoryLocated
    /\ \A k \in 1..Len(Directory) :
          /\ IntactHeaders(Directory[k])
          /\ IsDirectory(Directory[k]) \/ Decompressible(Directory[k])
          /\ ~IsDirectory(Directory[k]) =>
                /\ ObjHas(model.byPath, Directory[k].name)
                /\ \E f \in 1..Len(model.files) :
                      model.files[f].metadata.path = Directory[k].name
                /\ RefIsXml(Directory[k].name) => ObjHas(model.xmlDocuments, Directory[k].name)
                /\ endsWith(toLowerCase(Directory[k].name), RelsSuffix) =>
                      ObjHas(model.relationships, Directory[k].name)
    /\ \A f \in 1..Len(model.files) :
          \E k \in 1..Len(Directory) :
              /\ Directory[k].name = model.files[f].metadata.path
              /\ \A l \in (k + 1)..Len(Directory) : Directory[l].name # Directory[k].name
              /\ model.files[f].arrayBuffer = RefPayload(Directory[k])
              /\ ObjGet(model.byPath, Directory[k].name) = model.files[f]

\* C20: the promise of a load is fulfilled only with a complete model, a
\* pending or rejected promise carries no model, and the active model
\* changes only when a promise has been fulfilled, to that promise's
\* model: it stays as it was while a load is suspended and when a load
\* fails.
C20_LoadAtomic ==
    /\ [](promise.state = "fulfilled" => Complete(promise.value))
    /\ [](promise.state # "fulfilled" => "value" \notin DOMAIN promise)
    /\ [][activeModel' # activeModel =>
            (promise.state = "fulfilled" /\ activeModel' = promise.value)]_vars

\* a load that read one part and then met a part that is not well-formed
\* has failed, and the model of the load before it is still the active one
C20_Witness ==
    /\ Directory = <<DOCUMENT, BROKEN_XML>>
    /\ promise.state = "rejected"
    /\ ld.pc = "idle"
    /\ activeModel # NoModel
    /\ Len(activeModel.files) = 2

\* C21: every non-directory entry returned by a successful parse has a
\* payload as long as the uncompressedSize its record declares, for Store
\* and for Deflate, and every directory entry a payload of length zero.
C21_PayloadLength ==
    ld.pc \in {"entry", "async"} =>
        \A e \in 1..Len(ld.entries) :
            /\ ~ld.entries[e].dir => ld.entries[e].data.size = ld.entries[e].uncompressedSize
            /\ ld.entries[e].dir => ld.entries[e].data.size = 0

\* the call to findEndOfCentralDirectory has returned
Found == relCall.fn = "findEndOfCentralDirectory" /\ relResult.done

\* the offsets of the documented search: from length - 22 down to
\* length - 22 - 65536, not below 0
RefWindow(data) ==
    { i \in data.signatures :
        i <= data.length - 22 /\ i >= data.length - 22 - 65536 /\ i >= 0 }

\* C22: findEndOfCentralDirectory returns the signature offset nearest the
\* tail among those from length - 22 down to length - 22 - 65536 (clamped
\* at 0), and -1, on which the missing-directory error is raised, only when
\* no signature lies in that window.
C22_EocdWindow ==
    Found =>
        IF RefWindow(relCall.data) = {} THEN relResult.value = -1
        ELSE /\ relResult.value \in RefWindow(relCall.data)
             /\ \A i \in RefWindow(relCall.data) : i <= relResult.value

EndsInSlash(name) == name # <<>> /\ name[Len(name)] = Slash

\* C23: decompress is never awaited for a record whose name ends in "/",
\* whatever method and sizes it declares; the entry parsed from it is a
\* directory entry with a zero-length payload; and no file of the loader,
\* and no file or byPath key of the package model, has such a name.
C23_DirectoryEntries ==
    /\ ld.pc = "decompress" => ~EndsInSlash(Directory[ld.i].name)
    /\ \A e \in 1..Len(ld.entries) :
          EndsInSlash(ld.entries[e].name) =>
              (ld.entries[e].dir /\ ld.entries[e].data.size = 0)
    /\ \A z \in 1..Len(ld.zip) :
          EndsInSlash(ld.zip[z][1]) => (ld.zip[z][2].dir /\ ld.zip[z][2].data.size = 0)
    /\ \A f \in 1..Len(ld.files) : ~EndsInSlash(ld.files[f].metadata.path)
    /\ promise.state = "fulfilled" =>
          /\ \A f \in 1..Len(promise.value.files) :
                ~EndsInSlash(promise.value.files[f].metadata.path)
          /\ \A k \in 1..Len(promise.value.byPath) : ~EndsInSlash(promise.value.byPath[k][1])

\* a directory record declaring Deflate, sizes and data, then a document:
\* the model holds the document alone
C23_Witness ==
    /\ Directory = <<SIZED_FOLDER, DOCUMENT>>
    /\ promise.state = "fulfilled"
    /\ Len(promise.value.files) = 1
    /\ promise.value.files[1].metadata.path = WORD_DOCUMENT

\* the last record of the central directory that has this name
LastRecordNamed(name) ==
    Directory[CHOOSE k \in 1..Len(Directory) :
                 /\ Directory[k].name = name
                 /\ \A j \in (k + 1)..Len(Directory) : Directory[j].name # name]

\* C26: in the model of a successful load no two files have the same path,
\* the keys of byPath are exactly the paths of files, byPath[p] is the file
\* of path p, and a name the central directory lists more than once has
\* one file, holding the payload of the last record of that name.
C26_UniquePaths ==
    promise.state = "fulfilled" =>
        LET files == promise.value.files
            byPath == promise.value.byPath
        IN  /\ \A f \in 1..Len(files) : \A g \in 1..Len(files) :
                  f # g => files[f].metadata.path # files[g].metadata.path
            /\ \A k \in 1..Len(byPath) : \A l \in 1..Len(byPath) :
                  k # l => byPath[k][1] # byPath[l][1]
            /\ { byPath[k][1] : k \in 1..Len(byPath) }
                  = { files[f].metadata.path : f \in 1..Len(files) }
            /\ \A f \in 1..Len(files) :
                  /\ ObjGet(byPath, files[f].metadata.path) = files[f]
                  /\ files[f].arrayBuffer = RefPayload(LastRecordNamed(files[f].metadata.path))

\* word/document.xml is listed twice, with two and then four bytes: the
\* model has one file of that path, four bytes long
C26_Witness ==
    /\ Directory = <<DOCUMENT, DOCUMENT_AGAIN>>
    /\ promise.state = "fulfilled"
    /\ Len(promise.value.files) = 1
    /\ promise.value.files[1].metadata.path = WORD_DOCUMENT
    /\ promise.value.files[1].metadata.size = 4
    /\ Len(promise.value.byPath) = 1

(***************************************************************************)
(* Properties of the tab store                                             *)
(***************************************************************************)
OpenPaths == { state.tabs[i].path : i \in 1..Len(state.tabs) }

\* the call just made was open(detail, ...) for a path that had a tab
ReopenedExisting ==
    /\ tabCall'.op = "open"
    /\ \E i \in 1..Len(state.tabs) : state.tabs[i].path = tabCall'.args[1]

\* C24: whatever sequence of open, close, closeAll and focus calls is made,
\* no two tabs of the store have the same path; and open(detail) for a path
\* that already has a tab adds no tab, leaves every tab where it was, keeps
\* the existing tab's content, and makes that path the active one.
C24_NoDuplicateTabs ==
    /\ [](\A i \in 1..Len(state.tabs) : \A j \in 1..Len(state.tabs) :
            i # j => state.tabs[i].path # state.tabs[j].path)
    /\ [][ReopenedExisting =>
            /\ Len(state'.tabs) = Len(state.tabs)
            /\ \A i \in 1..Len(state.tabs) :
                  /\ state'.tabs[i].path = state.tabs[i].path
                  /\ state'.tabs[i].content = state.tabs[i].content
            /\ state'.activePath = tabCall'.args[1]]_vars

\* "a" was opened with content, then "b", then "a" again: still two tabs,
\* "a" first with its content, and "a" active
C24_Witness ==
    /\ tabCall.op = "open"
    /\ tabCall.args = << <<"a">> >>
    /\ Len(state.tabs) = 2
    /\ state.tabs[1].path = <<"a">>
    /\ state.tabs[1].content = <<"x">>
    /\ state.tabs[2].path = <<"b">>
    /\ state.activePath = <<"a">>

\* the call just made was close(path)
Closed(path) == tabCall'.op = "close" /\ tabCall'.args = <<path>>

\* the call just made was focus(path, ...) for a path without a tab
FocusedAbsent ==
    /\ tabCall'.op = "focus"
    /\ \A i \in 1..Len(state.tabs) : state.tabs[i].path # tabCall'.args[1]

\* C30: activePath is null exactly when no tab is open and is otherwise the
\* path of an open tab; closing the active tab makes the last remaining tab
\* active (null when none remains); closing a tab that is not active leaves
\* activePath unchanged; focus on a path that is not open changes nothing
\* and calls no listener.
C30_ActivePath ==
    /\ []((state.activePath = Null) <=> (Len(state.tabs) = 0))
    /\ [](state.activePath # Null => state.activePath \in OpenPaths)
    /\ [][\A p \in TabPaths :
            Closed(p) =>
                LET remaining == filterOut(state.tabs, p)
                IN  /\ state'.tabs = remaining
                    /\ p = state.activePath /\ Len(remaining) >= 1
                          => state'.activePath = remaining[Len(remaining)].path
                    /\ p = state.activePath /\ Len(remaining) = 0
                          => state'.activePath = Null
                    /\ p # state.activePath
                          => state'.activePath = state.activePath]_vars
    /\ [][FocusedAbsent => state' = state /\ tabCall'.notified = {}]_vars

\* with a listener subscribed and "b" then "c" left open, "a" has just been
\* closed and the last remaining tab "c" is the active one
C30_Witness ==
    /\ tabCall.op = "close"
    /\ tabCall.args = << <<"a">> >>
    /\ tabCall.notified = Listeners
    /\ Len(state.tabs) = 2
    /\ state.tabs[1].path = <<"b">>
    /\ state.tabs[2].path = <<"c">>
    /\ state.activePath = <<"c">>

(***************************************************************************)
(* Properties of the XML viewer's reference detection                      *)
(***************************************************************************)
Rendered == relCall.fn = "createAttributeTokens" /\ relResult.done

\* the resolved targets of the rendered part's relationships whose
\* targetMode is External, whatever its case
ExternalTargetsOfSource ==
    IF relCall.context.relationshipsBySource = <<>> \/ relCall.context.sourcePath = Undefined
    THEN {}
    ELSE LET values == ObjValues(relationshipsOf(relCall.context))
         IN  { values[i].resolvedTarget :
                 i \in { j \in 1..Len(values) : ExternalMode(values[j]) } }

\* C25: whichever kind of reference the viewer detects on an attribute
\* (relationship id, comment, footnote, endnote, bookmark), the navigation
\* target it offers and the link it registers in the Reference Map never
\* point at the target of a relationship whose targetMode is External.
C25_NoExternalTargets ==
    Rendered =>
        /\ \A i \in 1..Len(relResult.value.forwardReference) :
              relResult.value.forwardReference[i].targetPath \notin ExternalTargetsOfSource
        /\ \A i \in 1..Len(added) : added[i].targetPath \notin ExternalTargetsOfSource

====
